---- MODULE Spec2Model ----
(***************************************************************************)
(* Soft-delete repository over a key-value store with conditional writes   *)
(* (src/src/db.rs, DynamoDbRepository<Item>), modelled as a state machine. *)
(* The table is the store's state; every repository method is one request  *)
(* that the store evaluates atomically (condition and write together).     *)
(* The token verifier (src/src/auth.rs, Auth::verify_token) is modelled     *)
(* beside it: its cache is the only shared state the process holds.        *)
(***************************************************************************)
EXTENDS Integers, Sequences, FiniteSets, TLC

\* ------------------------------------------------------------------ bounds

\* Wall-clock seconds run from 0 to MaxTime.
MaxTime == 1

\* The store evaluates at most MaxPage records per scan page.
MaxPage == 2

\* The clock of the token verifier runs from 0 to MaxClock.
MaxClock == 4

\* ------------------------------------------------------------------ inputs

\* Primary keys, in the order in which the store's scan walks the table.
KeyOrder == <<"k1", "k2">>

Keys == {KeyOrder[i] : i \in 1..Len(KeyOrder)}

Names == {"Ann", "Bob"}

Ages == {30}

\* Identities that callers pass as user_id.
Actors == {"alice", "bob"}

\* deleted_at strings a caller can put in an item body.
CallerDeletedAt == {"2023-05-01"}

\* deleted_by strings a caller can put in an item body.
CallerDeletedBy == {"bob"}

\* Concurrent request-handling tasks.
Tasks == {"t1", "t2", "t3"}

\* Outcome of the transport to the store: the request is evaluated, or the
\* SDK reports a service error other than a failed condition.
Transport == {"ok", "error"}

\* ------------------------------------------------------------------ values

\* Option<T>
None == [some |-> FALSE]

Some(v) == [some |-> TRUE, v |-> v]

is_some(o) == o.some

is_none(o) == ~o.some

\* AttributeValue::S and AttributeValue::N
AttrS(s) == [S |-> s]

\* AttributeValue::Null(true)
AttrNull == [NULL |-> TRUE]

AttrN(n) == [N |-> n]

\* SystemTime::now().duration_since(UNIX_EPOCH).as_secs().to_string()
SecsToString(t) == ToString(t)

\* OperationResult<T>
Success(v) == [tag |-> "Success", v |-> v]

ItemNotFound == [tag |-> "ItemNotFound"]

ItemAlreadyExists == [tag |-> "ItemAlreadyExists"]

InternalError == [tag |-> "InternalError"]

\* Result<T, E>::Ok
Ok(v) == [tag |-> "Ok", v |-> v]

\* struct Item: every body a caller can pass for key id.
ItemsOf(id) ==
    [id : {id}, name : Names, age : Ages,
     deleted_at : {None} \cup {Some(d) : d \in CallerDeletedAt},
     deleted_by : {None} \cup {Some(a) : a \in CallerDeletedBy}]

Items == UNION {ItemsOf(id) : id \in Keys}

\* to_item of a struct whose Option fields have no skip_serializing_if: a
\* None is written as a NULL attribute.
to_item_WritesNull(item) ==
    [a \in {"id", "name", "age", "deleted_at", "deleted_by"} |->
        CASE a = "id" -> AttrS(item.id)
          [] a = "name" -> AttrS(item.name)
          [] a = "age" -> AttrN(item.age)
          [] a = "deleted_at" ->
                IF is_some(item.deleted_at) THEN AttrS(item.deleted_at.v) ELSE AttrNull
          [] a = "deleted_by" ->
                IF is_some(item.deleted_by) THEN AttrS(item.deleted_by.v) ELSE AttrNull]

\* serde_dynamo::to_item for Item: id, name and age always become attributes,
\* deleted_at and deleted_by are skipped when None (skip_serializing_if).
to_item(item) ==
    LET attrs == {"id", "name", "age"}
                    \cup (IF is_some(item.deleted_at) THEN {"deleted_at"} ELSE {})
                    \cup (IF is_some(item.deleted_by) THEN {"deleted_by"} ELSE {})
    IN  [a \in attrs |->
            CASE a = "id" -> AttrS(item.id)
              [] a = "name" -> AttrS(item.name)
              [] a = "age" -> AttrN(item.age)
              [] a = "deleted_at" -> AttrS(item.deleted_at.v)
              [] a = "deleted_by" -> AttrS(item.deleted_by.v)]

\* Reading an Option<String> field back: a missing attribute and a NULL
\* attribute are None.
OptAttr(attrs, a) ==
    IF a \in DOMAIN attrs /\ attrs[a] # AttrNull THEN Some(attrs[a].S) ELSE None

\* A from_item that does not read the age attribute.
from_item_DefaultAge(attrs) ==
    LET has(a, ty) == a \in DOMAIN attrs /\ DOMAIN attrs[a] = {ty}
        opt(a) == a \notin DOMAIN attrs \/ attrs[a] = AttrNull \/ DOMAIN attrs[a] = {"S"}
    IN  IF /\ has("id", "S")
           /\ has("name", "S")
           /\ opt("deleted_at")
           /\ opt("deleted_by")
        THEN Ok([id |-> attrs["id"].S, name |-> attrs["name"].S, age |-> 0,
                 deleted_at |-> OptAttr(attrs, "deleted_at"),
                 deleted_by |-> OptAttr(attrs, "deleted_by")])
        ELSE [tag |-> "Err", err |-> "serde_dynamo::Error"]

\* serde_dynamo::from_item for Item: id and name must be string attributes
\* and age a number that fits u32; deleted_at and deleted_by are a string,
\* NULL or missing; a record that lacks a required attribute or holds one of
\* another type is an error.
from_item(attrs) ==
    LET has(a, ty) == a \in DOMAIN attrs /\ DOMAIN attrs[a] = {ty}
        opt(a) == a \notin DOMAIN attrs \/ attrs[a] = AttrNull \/ DOMAIN attrs[a] = {"S"}
    IN  IF /\ has("id", "S")
           /\ has("name", "S")
           /\ has("age", "N")
           /\ attrs["age"].N >= 0
           /\ opt("deleted_at")
           /\ opt("deleted_by")
        THEN Ok([id |-> attrs["id"].S, name |-> attrs["name"].S, age |-> attrs["age"].N,
                 deleted_at |-> OptAttr(attrs, "deleted_at"),
                 deleted_by |-> OptAttr(attrs, "deleted_by")])
        ELSE [tag |-> "Err", err |-> "serde_dynamo::Error"]

\* impl SoftDeletable for Item
get_deleted_at(item) == item.deleted_at

\* ------------------------------------------------------------------ store

\* The table is a map from the stored keys to their attribute maps; a key
\* outside DOMAIN tbl has no record.
Stored(tbl, key) == IF key \in DOMAIN tbl THEN Some(tbl[key]) ELSE None

\* attribute_exists(a) on the record addressed by the request (none: FALSE).
AttrExists(rec, a) == is_some(rec) /\ a \in DOMAIN rec.v

\* The condition and filter expressions the repository sends, evaluated by
\* the store on one record (rec is None when the key holds no record); a
\* request without an expression passes.
EvalExpr(expr, rec, user_id) ==
    CASE expr = "" ->
            TRUE
      [] expr = "attribute_not_exists(id)" ->
            ~AttrExists(rec, "id")
      [] expr = "attribute_exists(id)" ->
            AttrExists(rec, "id")
      [] expr = "attribute_exists(id) AND attribute_not_exists(deleted_at)" ->
            AttrExists(rec, "id") /\ ~AttrExists(rec, "deleted_at")
      [] expr = "attribute_not_exists(deleted_at)" ->
            ~AttrExists(rec, "deleted_at")
      [] expr = "attribute_exists(deleted_at)" ->
            AttrExists(rec, "deleted_at")
      [] expr = "attribute_exists(deleted_at) AND deleted_by = :user_id" ->
            /\ AttrExists(rec, "deleted_at")
            /\ AttrExists(rec, "deleted_by")
            /\ rec.v["deleted_by"] = AttrS(user_id)

\* tbl with key mapped to attrs (a new key is added to the domain).
TablePut(tbl, key, attrs) ==
    [k \in DOMAIN tbl \cup {key} |-> IF k = key THEN attrs ELSE tbl[k]]

\* tbl without key.
TableRemove(tbl, key) == [k \in DOMAIN tbl \ {key} |-> tbl[k]]

\* What the store answers: err is "none", "ConditionalCheckFailedException"
\* or "ServiceError"; tbl is the table after the request.
Answer(err, tbl) == [err |-> err, tbl |-> tbl]

\* PutItem with a condition expression: replaces the whole record.
DbPutItem(tbl, attrs, cond, net) ==
    LET key == attrs["id"].S
    IN  IF net = "error" THEN Answer("ServiceError", tbl)
        ELSE IF EvalExpr(cond, Stored(tbl, key), "")
             THEN Answer("none", TablePut(tbl, key, attrs))
             ELSE Answer("ConditionalCheckFailedException", tbl)

\* DeleteItem with a condition expression.
DbDeleteItem(tbl, key, cond, net) ==
    IF net = "error" THEN Answer("ServiceError", tbl)
    ELSE IF EvalExpr(cond, Stored(tbl, key), "")
         THEN Answer("none", TableRemove(tbl, key))
         ELSE Answer("ConditionalCheckFailedException", tbl)

\* UpdateItem with SET assignments and a condition expression; on a key with
\* no record it would start from the key attribute alone.
DbUpdateItem(tbl, key, sets, cond, net) ==
    LET old == IF key \in DOMAIN tbl THEN tbl[key] ELSE [a \in {"id"} |-> AttrS(key)]
        new == [a \in DOMAIN old \cup DOMAIN sets |->
                    IF a \in DOMAIN sets THEN sets[a] ELSE old[a]]
    IN  IF net = "error" THEN Answer("ServiceError", tbl)
        ELSE IF EvalExpr(cond, Stored(tbl, key), "")
             THEN Answer("none", TablePut(tbl, key, new))
             ELSE Answer("ConditionalCheckFailedException", tbl)

\* GetItem: the record of key, if any.
DbGetItem(tbl, key, net) ==
    IF net = "error" THEN [err |-> "ServiceError", item |-> None]
    ELSE [err |-> "none", item |-> Stored(tbl, key)]

\* Position of a key in the scan order; 0 for no key (the start).
KeyPos(key) == CHOOSE i \in 1..Len(KeyOrder) : KeyOrder[i] = key

\* The stored keys after position pos, in scan order.
RECURSIVE KeysAfter(_, _)
KeysAfter(tbl, pos) ==
    IF pos >= Len(KeyOrder) THEN << >>
    ELSE IF KeyOrder[pos + 1] \in DOMAIN tbl
         THEN <<KeyOrder[pos + 1]>> \o KeysAfter(tbl, pos + 1)
         ELSE KeysAfter(tbl, pos + 1)

\* The records of keys that pass the filter, in order.
RECURSIVE FilterRecords(_, _, _, _)
FilterRecords(tbl, keys, filter, user_id) ==
    IF keys = << >> THEN << >>
    ELSE LET rest == FilterRecords(tbl, Tail(keys), filter, user_id)
         IN  IF EvalExpr(filter, Some(tbl[Head(keys)]), user_id)
             THEN <<tbl[Head(keys)]>> \o rest
             ELSE rest

\* One Scan page: the store evaluates the next limit records after the
\* exclusive start key, returns those that pass the filter, and returns the
\* last evaluated key unless the table is exhausted (when the page ends
\* exactly on the last record it may still return it: more).
DbScan(tbl, filter, user_id, start, limit, more, net) ==
    LET rest == KeysAfter(tbl, IF is_some(start) THEN KeyPos(start.v) ELSE 0)
        n == IF Len(rest) < limit THEN Len(rest) ELSE limit
        page == SubSeq(rest, 1, n)
        lek == IF n > 0 /\ (n < Len(rest) \/ more) THEN Some(page[n]) ELSE None
    IN  IF net = "error"
        THEN [err |-> "ServiceError", items |-> << >>, last_evaluated_key |-> None]
        ELSE [err |-> "none", items |-> FilterRecords(tbl, page, filter, user_id),
              last_evaluated_key |-> lek]

\* ------------------------------------------------------------------ repository

\* What a repository method leaves behind: its OperationResult and the table.
Outcome(res, tbl) == [res |-> res, tbl |-> tbl]

\* get_item without the deleted_at test on the record read.
get_item_IgnoresTombstone(tbl, id, net) ==
    LET r == DbGetItem(tbl, id, net)
    IN  IF r.err # "none" THEN InternalError
        ELSE IF is_some(r.item)
             THEN LET item == from_item(r.item.v)
                  IN  IF item.tag # "Ok" THEN InternalError
                      ELSE Success(Some(item.v))
             ELSE ItemNotFound

\* DynamoDbRepository::get_item
get_item(tbl, id, net) ==
    LET r == DbGetItem(tbl, id, net)
    IN  IF r.err # "none" THEN InternalError
        ELSE IF is_some(r.item)
             THEN LET item == from_item(r.item.v)
                  IN  IF item.tag # "Ok" THEN InternalError
                      ELSE IF is_none(get_deleted_at(item.v))
                      THEN Success(Some(item.v))
                      ELSE ItemNotFound
             ELSE ItemNotFound

\* update whose condition tests existence only.
update_ExistsOnly(tbl, item, net) ==
    LET r == DbPutItem(tbl, to_item(item), "attribute_exists(id)", net)
    IN  CASE r.err = "none" -> Outcome(Success(None), r.tbl)
          [] r.err = "ConditionalCheckFailedException" -> Outcome(ItemNotFound, r.tbl)
          [] OTHER -> Outcome(InternalError, r.tbl)

\* DynamoDbRepository::update
update(tbl, item, net) ==
    LET r == DbPutItem(tbl, to_item(item),
                       "attribute_exists(id) AND attribute_not_exists(deleted_at)", net)
    IN  CASE r.err = "none" -> Outcome(Success(None), r.tbl)
          [] r.err = "ConditionalCheckFailedException" -> Outcome(ItemNotFound, r.tbl)
          [] OTHER -> Outcome(InternalError, r.tbl)

\* create that reports a failed condition as ItemNotFound.
create_WrongError(tbl, item, net) ==
    LET r == DbPutItem(tbl, to_item(item), "attribute_not_exists(id)", net)
    IN  CASE r.err = "none" -> Outcome(Success(None), r.tbl)
          [] r.err = "ConditionalCheckFailedException" -> Outcome(ItemNotFound, r.tbl)
          [] OTHER -> Outcome(InternalError, r.tbl)

\* create that sends no condition expression.
create_NoCondition(tbl, item, net) ==
    LET r == DbPutItem(tbl, to_item(item), "", net)
    IN  CASE r.err = "none" -> Outcome(Success(None), r.tbl)
          [] r.err = "ConditionalCheckFailedException" -> Outcome(ItemAlreadyExists, r.tbl)
          [] OTHER -> Outcome(InternalError, r.tbl)

\* create that sends its request again when the first one failed.
create_Retries(tbl, item, net) ==
    LET r == DbPutItem(tbl, to_item(item), "attribute_not_exists(id)", "ok")
    IN  CASE r.err = "none" -> Outcome(Success(None), r.tbl)
          [] r.err = "ConditionalCheckFailedException" -> Outcome(ItemAlreadyExists, r.tbl)
          [] OTHER -> Outcome(InternalError, r.tbl)

\* DynamoDbRepository::create
create(tbl, item, net) ==
    LET r == DbPutItem(tbl, to_item(item), "attribute_not_exists(id)", net)
    IN  CASE r.err = "none" -> Outcome(Success(None), r.tbl)
          [] r.err = "ConditionalCheckFailedException" -> Outcome(ItemAlreadyExists, r.tbl)
          [] OTHER -> Outcome(InternalError, r.tbl)

\* delete that sends no condition expression.
delete_Unconditional(tbl, id, net) ==
    LET r == DbDeleteItem(tbl, id, "", net)
    IN  CASE r.err = "none" -> Outcome(Success(None), r.tbl)
          [] r.err = "ConditionalCheckFailedException" -> Outcome(ItemNotFound, r.tbl)
          [] OTHER -> Outcome(InternalError, r.tbl)

\* DynamoDbRepository::delete
delete(tbl, id, net) ==
    LET r == DbDeleteItem(tbl, id, "attribute_exists(id)", net)
    IN  CASE r.err = "none" -> Outcome(Success(None), r.tbl)
          [] r.err = "ConditionalCheckFailedException" -> Outcome(ItemNotFound, r.tbl)
          [] OTHER -> Outcome(InternalError, r.tbl)

\* soft_delete whose condition tests existence only.
soft_delete_ExistsOnly(tbl, id, user_id, at, net) ==
    LET sets == [a \in {"deleted_at", "deleted_by"} |->
                    IF a = "deleted_at" THEN AttrS(SecsToString(at)) ELSE AttrS(user_id)]
        r == DbUpdateItem(tbl, id, sets, "attribute_exists(id)", net)
    IN  CASE r.err = "none" -> Outcome(Success(None), r.tbl)
          [] r.err = "ConditionalCheckFailedException" -> Outcome(ItemNotFound, r.tbl)
          [] OTHER -> Outcome(InternalError, r.tbl)

\* soft_delete that sends no condition expression.
soft_delete_NoCondition(tbl, id, user_id, at, net) ==
    LET sets == [a \in {"deleted_at", "deleted_by"} |->
                    IF a = "deleted_at" THEN AttrS(SecsToString(at)) ELSE AttrS(user_id)]
        r == DbUpdateItem(tbl, id, sets, "", net)
    IN  CASE r.err = "none" -> Outcome(Success(None), r.tbl)
          [] r.err = "ConditionalCheckFailedException" -> Outcome(ItemNotFound, r.tbl)
          [] OTHER -> Outcome(InternalError, r.tbl)

\* soft_delete that writes a fresh record holding only the key and the two
\* tombstone attributes.
soft_delete_Overwrites(tbl, id, user_id, at, net) ==
    LET attrs == [a \in {"id", "deleted_at", "deleted_by"} |->
                    CASE a = "id" -> AttrS(id)
                      [] a = "deleted_at" -> AttrS(SecsToString(at))
                      [] a = "deleted_by" -> AttrS(user_id)]
        r == DbPutItem(tbl, attrs,
                       "attribute_exists(id) AND attribute_not_exists(deleted_at)", net)
    IN  CASE r.err = "none" -> Outcome(Success(None), r.tbl)
          [] r.err = "ConditionalCheckFailedException" -> Outcome(ItemNotFound, r.tbl)
          [] OTHER -> Outcome(InternalError, r.tbl)

\* DynamoDbRepository::soft_delete; at is the clock reading taken before the
\* request is sent.
soft_delete(tbl, id, user_id, at, net) ==
    LET sets == [a \in {"deleted_at", "deleted_by"} |->
                    IF a = "deleted_at" THEN AttrS(SecsToString(at)) ELSE AttrS(user_id)]
        r == DbUpdateItem(tbl, id, sets,
                          "attribute_exists(id) AND attribute_not_exists(deleted_at)", net)
    IN  CASE r.err = "none" -> Outcome(Success(None), r.tbl)
          [] r.err = "ConditionalCheckFailedException" -> Outcome(ItemNotFound, r.tbl)
          [] OTHER -> Outcome(InternalError, r.tbl)

\* The loop over the records of one page: from_item on each, in order; the
\* first record that does not deserialize ends it with the error.
RECURSIVE FromItems(_)
FromItems(recs) ==
    IF recs = << >> THEN Ok(<< >>)
    ELSE LET item == from_item(Head(recs))
             rest == FromItems(Tail(recs))
         IN  IF item.tag # "Ok" THEN item
             ELSE IF rest.tag # "Ok" THEN rest
             ELSE Ok(<<item.v>> \o rest.v)

\* The pagination loop shared by scan, get_deleted_items_by_user and
\* get_deleted_items, over a table that does not change meanwhile: request a
\* page from last_evaluated_key, push its items, stop when no key comes back;
\* a failed request and a record that does not deserialize end the call with
\* InternalError. The store cuts pages of limit records; request number
\* failAt fails (0: none).
RECURSIVE ScanLoop(_, _, _, _, _, _, _, _, _)
ScanLoop(tbl, filter, user_id, items, last_evaluated_key, limit, more, failAt, req) ==
    LET r == DbScan(tbl, filter, user_id, last_evaluated_key, limit, more,
                    IF req = failAt THEN "error" ELSE "ok")
        pushed == FromItems(r.items)
    IN  IF r.err # "none" THEN InternalError
        ELSE IF pushed.tag # "Ok" THEN InternalError
        ELSE IF is_none(r.last_evaluated_key)
             THEN Success(Some(items \o pushed.v))
             ELSE ScanLoop(tbl, filter, user_id, items \o pushed.v,
                           r.last_evaluated_key, limit, more, failAt, req + 1)

\* DynamoDbRepository::scan
scan(tbl, limit, more, failAt) ==
    ScanLoop(tbl, "attribute_not_exists(deleted_at)", "", << >>, None,
             limit, more, failAt, 1)

\* DynamoDbRepository::get_deleted_items_by_user
get_deleted_items_by_user(tbl, user_id, limit, more, failAt) ==
    ScanLoop(tbl, "attribute_exists(deleted_at) AND deleted_by = :user_id", user_id,
             << >>, None, limit, more, failAt, 1)

\* get_deleted_items without a filter expression.
get_deleted_items_NoFilter(tbl, limit, more, failAt) ==
    ScanLoop(tbl, "", "", << >>, None, limit, more, failAt, 1)

\* DynamoDbRepository::get_deleted_items
get_deleted_items(tbl, limit, more, failAt) ==
    ScanLoop(tbl, "attribute_exists(deleted_at)", "", << >>, None,
             limit, more, failAt, 1)

\* ------------------------------------------------------------------ state

VARIABLES
    table,      \* the store: stored key -> attribute map
    now,        \* wall clock, in seconds
    calls,      \* per task: the call it has in flight, or its result
    last,       \* the repository call that completed last: arguments and result
    tombBy,     \* key -> user_id of the soft_delete that tombstoned the stored record
    token_cache, \* Auth.token_cache: token -> (claims, expiry)
    cached_key  \* rust_app AuthState.cached_key: the signing key and its expiry, if any

vars == <<table, now, calls, last, tombBy, token_cache, cached_key>>

EmptyTable == [k \in {} |-> << >>]

EmptyCache == [k \in {} |-> << >>]

Idle == [state |-> "idle"]

Init ==
    /\ table = EmptyTable
    /\ now = 0
    /\ calls = [t \in Tasks |-> Idle]
    /\ last = [op |-> "none"]
    /\ tombBy = EmptyTable
    /\ token_cache = EmptyCache
    /\ cached_key = None

\* The clock advances.
Tick ==
    /\ now < MaxTime
    /\ now' = now + 1
    /\ UNCHANGED <<table, calls, last, tombBy, token_cache, cached_key>>

\* ------------------------------------------------------------------ one caller at a time

GetItem(id, net) ==
    /\ last' = [op |-> "get_item", key |-> id,
                res |-> get_item(table, id, net)]
    /\ UNCHANGED <<table, now, calls, tombBy, token_cache, cached_key>>

Update(item, net) ==
    LET o == update(table, item, net)
    IN  /\ table' = o.tbl
        /\ last' = [op |-> "update", key |-> item.id, res |-> o.res]
        /\ UNCHANGED <<now, calls, tombBy, token_cache, cached_key>>

Create(item, net) ==
    LET o == create(table, item, net)
    IN  /\ table' = o.tbl
        /\ last' = [op |-> "create", key |-> item.id, res |-> o.res]
        /\ UNCHANGED <<now, calls, tombBy, token_cache, cached_key>>

Delete(id, net) ==
    LET o == delete(table, id, net)
    IN  /\ table' = o.tbl
        /\ last' = [op |-> "delete", key |-> id, res |-> o.res]
        /\ tombBy' = IF o.res = Success(None) THEN TableRemove(tombBy, id) ELSE tombBy
        /\ UNCHANGED <<now, calls, token_cache, cached_key>>

\* soft_delete reads the clock before it sends its request: the store
\* evaluates the request with the reading at, taken no later than now.
SoftDelete(id, user_id, at, net) ==
    LET o == soft_delete(table, id, user_id, at, net)
    IN  /\ table' = o.tbl
        /\ last' = [op |-> "soft_delete", key |-> id, user_id |-> user_id,
                    res |-> o.res]
        /\ tombBy' = IF o.res = Success(None) THEN TablePut(tombBy, id, user_id)
                     ELSE tombBy
        /\ UNCHANGED <<now, calls, token_cache, cached_key>>

\* ------------------------------------------------------------------ concurrent callers

\* A call in flight: the task has built its request and awaits the store.
PendingCreate(item) == [state |-> "pending", op |-> "create", item |-> item]

PendingSoftDelete(id, user_id, at) ==
    [state |-> "pending", op |-> "soft_delete", id |-> id, user_id |-> user_id, at |-> at]

\* The call of a task, completed with result res.
Done(call, res) == [call EXCEPT !.state = "done"] @@ [res |-> res]

\* The store evaluates the create request of task t, condition and write in
\* one step, and the task gets its result.
ServeCreate(t) ==
    /\ calls[t].state = "pending"
    /\ calls[t].op = "create"
    /\ \E net \in Transport :
        LET o == create(table, calls[t].item, net)
        IN  /\ table' = o.tbl
            /\ calls' = [calls EXCEPT ![t] = Done(calls[t], o.res)]
            /\ last' = [op |-> "create", key |-> calls[t].item.id, res |-> o.res]
    /\ UNCHANGED <<now, tombBy, token_cache, cached_key>>

\* The store evaluates the soft_delete request of task t, which carries the
\* clock reading the task took before sending it.
ServeSoftDelete(t) ==
    /\ calls[t].state = "pending"
    /\ calls[t].op = "soft_delete"
    /\ \E net \in Transport :
        LET c == calls[t]
            o == soft_delete(table, c.id, c.user_id, c.at, net)
        IN  /\ table' = o.tbl
            /\ calls' = [calls EXCEPT ![t] = Done(c, o.res)]
            /\ last' = [op |-> "soft_delete", key |-> c.id, user_id |-> c.user_id,
                        res |-> o.res]
            /\ tombBy' = IF o.res = Success(None) THEN TablePut(tombBy, c.id, c.user_id)
                         ELSE tombBy
    /\ UNCHANGED <<now, token_cache, cached_key>>

\* Any number of tasks have a create for the same absent key in flight.
InitCreateRace ==
    /\ table = EmptyTable
    /\ now = 0
    /\ last = [op |-> "none"]
    /\ tombBy = EmptyTable
    /\ token_cache = EmptyCache
    /\ cached_key = None
    /\ \E k \in Keys :
        calls \in [Tasks -> {Idle} \cup {PendingCreate(item) : item \in ItemsOf(k)}]

NextCreateRace == \E t \in Tasks : ServeCreate(t)

SpecCreateRace == InitCreateRace /\ [][NextCreateRace]_vars

\* Any number of tasks have a soft_delete for the same active key in flight,
\* each with a clock reading taken no later than now.
InitSoftDeleteRace ==
    /\ now \in 0..MaxTime
    /\ last = [op |-> "none"]
    /\ tombBy = EmptyTable
    /\ token_cache = EmptyCache
    /\ cached_key = None
    /\ \E k \in Keys :
        /\ \E item \in ItemsOf(k) :
            /\ is_none(item.deleted_at)
            /\ table = TablePut(EmptyTable, k, to_item(item))
        /\ calls \in [Tasks -> {Idle} \cup
                        {PendingSoftDelete(k, u, at) : u \in Actors, at \in 0..now}]

NextSoftDeleteRace == \E t \in Tasks : ServeSoftDelete(t)

SpecSoftDeleteRace == InitSoftDeleteRace /\ [][NextSoftDeleteRace]_vars

PendingUpdate(item) == [state |-> "pending", op |-> "update", item |-> item]

\* The store evaluates the update request of task t, condition and write in
\* one step, and the task gets its result.
ServeUpdate(t) ==
    /\ calls[t].state = "pending"
    /\ calls[t].op = "update"
    /\ \E net \in Transport :
        LET o == update(table, calls[t].item, net)
        IN  /\ table' = o.tbl
            /\ calls' = [calls EXCEPT ![t] = Done(calls[t], o.res)]
            /\ last' = [op |-> "update", key |-> calls[t].item.id, res |-> o.res]
    /\ UNCHANGED <<now, tombBy, token_cache, cached_key>>

\* One task has an update and another a soft_delete in flight for the same
\* active key; the soft_delete carries a clock reading taken no later than now.
InitUpdateRace ==
    /\ now \in 0..MaxTime
    /\ last = [op |-> "none"]
    /\ tombBy = EmptyTable
    /\ token_cache = EmptyCache
    /\ cached_key = None
    /\ \E k \in Keys :
        /\ \E item \in ItemsOf(k) :
            /\ is_none(item.deleted_at)
            /\ table = TablePut(EmptyTable, k, to_item(item))
        /\ \E tu \in Tasks : \E ts \in Tasks \ {tu} :
           \E x \in ItemsOf(k), u \in Actors, at \in 0..now :
                calls = [t \in Tasks |->
                            IF t = tu THEN PendingUpdate(x)
                            ELSE IF t = ts THEN PendingSoftDelete(k, u, at)
                            ELSE Idle]

NextUpdateRace ==
    \/ \E t \in Tasks : ServeUpdate(t)
    \/ \E t \in Tasks : ServeSoftDelete(t)

SpecUpdateRace == InitUpdateRace /\ [][NextUpdateRace]_vars

\* ------------------------------------------------------------------ paginated reads

\* from_item succeeds on the record.
Deserializable(attrs) == from_item(attrs).tag = "Ok"

\* A scan-family call in flight: filter and user_id are fixed by the method,
\* items and last_evaluated_key are the loop's locals, requests lists what
\* every request so far carried as its start key and got back (a call
\* without that field runs the same loop with no list kept).
PendingScan(op, filter, user_id) ==
    [state |-> "pending", op |-> op, filter |-> filter, user_id |-> user_id,
     items |-> << >>, last_evaluated_key |-> None, requests |-> << >>]

ScanCalls ==
    {PendingScan("scan", "attribute_not_exists(deleted_at)", ""),
     PendingScan("get_deleted_items", "attribute_exists(deleted_at)", "")}
    \cup {PendingScan("get_deleted_items_by_user",
                      "attribute_exists(deleted_at) AND deleted_by = :user_id", u) :
            u \in Actors}

\* The call c after the answer r to its request: a failed request and a
\* record that does not deserialize end it with InternalError, an answer with
\* no last evaluated key ends it with the items pushed so far.
ScanPage_KeepsPartial(c, r) ==
    LET sent == IF "requests" \notin DOMAIN c THEN c
                ELSE [c EXCEPT !.requests = Append(@, [start |-> c.last_evaluated_key,
                        err |-> r.err, items |-> r.items,
                        last_evaluated_key |-> r.last_evaluated_key])]
    IN  IF r.err # "none" THEN Done(sent, Success(Some(c.items)))
        ELSE IF \E i \in 1..Len(r.items) : ~Deserializable(r.items[i])
        THEN Done(sent, Success(Some(c.items)))
        ELSE LET got == [sent EXCEPT !.items = @ \o FromItems(r.items).v,
                                     !.last_evaluated_key = r.last_evaluated_key]
             IN  IF is_none(got.last_evaluated_key)
                 THEN Done(got, Success(Some(got.items)))
                 ELSE got

ScanPage_KeepsLastPage(c, r) ==
    LET sent == IF "requests" \notin DOMAIN c THEN c
                ELSE [c EXCEPT !.requests = Append(@, [start |-> c.last_evaluated_key,
                        err |-> r.err, items |-> r.items,
                        last_evaluated_key |-> r.last_evaluated_key])]
    IN  IF r.err # "none" THEN Done(sent, InternalError)
        ELSE IF \E i \in 1..Len(r.items) : ~Deserializable(r.items[i])
        THEN Done(sent, InternalError)
        ELSE LET got == [sent EXCEPT !.items = FromItems(r.items).v,
                                     !.last_evaluated_key = r.last_evaluated_key]
             IN  IF is_none(got.last_evaluated_key)
                 THEN Done(got, Success(Some(got.items)))
                 ELSE got

ScanPage_StopsOnEmptyPage(c, r) ==
    LET sent == IF "requests" \notin DOMAIN c THEN c
                ELSE [c EXCEPT !.requests = Append(@, [start |-> c.last_evaluated_key,
                        err |-> r.err, items |-> r.items,
                        last_evaluated_key |-> r.last_evaluated_key])]
    IN  IF r.err # "none" THEN Done(sent, InternalError)
        ELSE IF \E i \in 1..Len(r.items) : ~Deserializable(r.items[i])
        THEN Done(sent, InternalError)
        ELSE LET got == [sent EXCEPT !.items = @ \o FromItems(r.items).v,
                                     !.last_evaluated_key = r.last_evaluated_key]
             IN  IF is_none(got.last_evaluated_key) \/ r.items = << >>
                 THEN Done(got, Success(Some(got.items)))
                 ELSE got

\* A loop that keeps its old start key for the next request.
ScanPage_ForgetsKey(c, r) ==
    LET sent == IF "requests" \notin DOMAIN c THEN c
                ELSE [c EXCEPT !.requests = Append(@, [start |-> c.last_evaluated_key,
                        err |-> r.err, items |-> r.items,
                        last_evaluated_key |-> r.last_evaluated_key])]
    IN  IF r.err # "none" THEN Done(sent, InternalError)
        ELSE IF \E i \in 1..Len(r.items) : ~Deserializable(r.items[i])
        THEN Done(sent, InternalError)
        ELSE LET got == [sent EXCEPT !.items = @ \o FromItems(r.items).v]
             IN  IF is_none(r.last_evaluated_key)
                 THEN Done(got, Success(Some(got.items)))
                 ELSE got

ScanPage(c, r) ==
    LET sent == IF "requests" \notin DOMAIN c THEN c
                ELSE [c EXCEPT !.requests = Append(@, [start |-> c.last_evaluated_key,
                        err |-> r.err, items |-> r.items,
                        last_evaluated_key |-> r.last_evaluated_key])]
    IN  IF r.err # "none" THEN Done(sent, InternalError)
        ELSE IF \E i \in 1..Len(r.items) : ~Deserializable(r.items[i])
        THEN Done(sent, InternalError)
        ELSE LET got == [sent EXCEPT !.items = @ \o FromItems(r.items).v,
                                     !.last_evaluated_key = r.last_evaluated_key]
             IN  IF is_none(got.last_evaluated_key)
                 THEN Done(got, Success(Some(got.items)))
                 ELSE got

\* One turn of the loop of task t: it sends the request with its
\* last_evaluated_key as the start key; the store cuts a page of limit
\* records, or the request fails.
FetchPage(t) ==
    /\ calls[t].state = "pending"
    /\ calls[t].op \in {"scan", "get_deleted_items", "get_deleted_items_by_user"}
    /\ \E limit \in 1..MaxPage, more \in BOOLEAN, net \in Transport :
        LET c == calls[t]
            r == DbScan(table, c.filter, c.user_id, c.last_evaluated_key, limit, more, net)
            c2 == ScanPage(c, r)
        IN  /\ calls' = [calls EXCEPT ![t] = c2]
            /\ last' = IF c2.state # "done" THEN last
                       ELSE IF c.op = "get_deleted_items_by_user"
                       THEN [op |-> c.op, user_id |-> c.user_id, res |-> c2.res]
                       ELSE [op |-> c.op, res |-> c2.res]
    /\ UNCHANGED <<table, now, tombBy, token_cache, cached_key>>

\* Task t calls scan, get_deleted_items or get_deleted_items_by_user: the
\* loop starts with no items and no start key. No list of the requests is
\* kept beside the call.
StartScan(t, c) ==
    /\ calls[t].state = "idle"
    /\ calls' = [calls EXCEPT ![t] = [x \in DOMAIN c \ {"requests"} |-> c[x]]]
    /\ UNCHANGED <<table, now, last, tombBy, token_cache, cached_key>>

\* The caller has the result of its scan-family call and goes on.
ScanReturn(t) ==
    /\ calls[t].state = "done"
    /\ calls[t].op \in {"scan", "get_deleted_items", "get_deleted_items_by_user"}
    /\ calls' = [calls EXCEPT ![t] = Idle]
    /\ UNCHANGED <<table, now, last, tombBy, token_cache, cached_key>>

\* One caller, task t1, makes one call after the other: each single-request
\* method is one step, a call of the scan family takes one step per page,
\* and the clock advances in between.
Next ==
    \/ Tick
    \/ /\ calls["t1"].state = "idle"
       /\ \/ \E id \in Keys, net \in Transport : GetItem(id, net)
          \/ \E item \in Items, net \in Transport : Update(item, net)
          \/ \E item \in Items, net \in Transport : Create(item, net)
          \/ \E id \in Keys, net \in Transport : Delete(id, net)
          \/ \E id \in Keys, u \in Actors, at \in 0..now, net \in Transport :
                SoftDelete(id, u, at, net)
          \/ \E c \in ScanCalls : StartScan("t1", c)
    \/ FetchPage("t1")
    \/ ScanReturn("t1")

Spec == Init /\ [][Next]_vars

\* What a key may hold when a read starts: nothing, an active record, a
\* record tombstoned by soft_delete, a record with a caller-written
\* deleted_at, or a record another writer stored without the age field;
\* every record carries the id of the key it is stored under.
ScanTables ==
    LET StoredRecords(k) ==
            {to_item([id |-> k, name |-> "Ann", age |-> 30, deleted_at |-> None,
                      deleted_by |-> None]),
             to_item([id |-> k, name |-> "Bob", age |-> 30,
                      deleted_at |-> Some("2023-05-01"), deleted_by |-> None]),
             [id |-> AttrS(k), name |-> AttrS("Ann")]}
            \cup {to_item([id |-> k, name |-> "Ann", age |-> 30,
                           deleted_at |-> Some(SecsToString(0)),
                           deleted_by |-> Some(u)]) : u \in Actors}
    IN  {tbl \in UNION {[D -> UNION {StoredRecords(k) : k \in D}] : D \in SUBSET Keys} :
            \A k \in DOMAIN tbl : tbl[k]["id"] = AttrS(k)}

\* One task starts a scan-family call on a table nobody writes meanwhile.
InitScan ==
    /\ table \in ScanTables
    /\ now = 0
    /\ last = [op |-> "none"]
    /\ tombBy = EmptyTable
    /\ token_cache = EmptyCache
    /\ cached_key = None
    /\ \E t \in Tasks, c \in ScanCalls :
            calls = [x \in Tasks |-> IF x = t THEN c ELSE Idle]

NextScan == \E t \in Tasks : FetchPage(t)

\* A request that was sent is answered: the loop turns as long as it can.
SpecScan == InitScan /\ [][NextScan]_vars /\ WF_vars(NextScan)

\* ------------------------------------------------------------------ token verifier

\* The bearer tokens presented: one valid from time 0 on, one issued by a
\* clock ahead of this one (its iat is in the future at time 0, and it is
\* valid in second 1 alone), one whose signature does not verify, and one
\* whose signed payload lacks a field of Claims.
Tokens == {"good", "skewed", "badsig", "garbled"}

\* The payload signed into each token; times are seconds.
TokenPayload(token) ==
    CASE token = "good" -> [sub |-> "u1", username |-> "alice", iat |-> 0, exp |-> 3]
      [] token = "skewed" -> [sub |-> "u2", username |-> "bob", iat |-> 1, exp |-> 2]
      [] token = "badsig" -> [sub |-> "u1", username |-> "alice", iat |-> 0, exp |-> 3]
      [] token = "garbled" -> [sub |-> "u2", iat |-> 0, exp |-> 3]
      [] token = "backdated" -> [sub |-> "u2", username |-> "bob", iat |-> 3, exp |-> 2]

\* The tokens above and one more that carries a valid signature, with an
\* iat later than its exp: the input on which exp - iat has no value. The
\* verifier refuses it at every reading of the clock, as issued in the
\* future before its exp and as expired from its exp on.
IssuedTokens == Tokens \cup {"backdated"}

\* The strings that carry a signature of the key set: every token but
\* badsig, and no other string.
SignatureValid(token) == token \in IssuedTokens \ {"badsig"}

\* AuthError
JwtError(kind) == [tag |-> "Err", err |-> "JwtError", kind |-> kind]

ParsingError == [tag |-> "Err", err |-> "ParsingError"]

\* A verifier built with ignore_iat: it does not look at the iat claim.
keyset_verify_IgnoresIat(token, at, net) ==
    IF net = "error" THEN JwtError("NetworkError")
    ELSE IF ~SignatureValid(token) THEN JwtError("InvalidSignature")
    ELSE IF TokenPayload(token).exp <= at THEN JwtError("TokenExpiredAt")
    ELSE Ok(TokenPayload(token))

\* keyset.verify(token, &verifier): the key set is fetched, the signature is
\* checked, then the claims against the clock. The verifier is the one
\* new_access_token_verifier builds, with nothing ignored and no leeway: a
\* token is expired from the second of its exp on, and is refused while
\* its iat lies in the future.
keyset_verify(token, at, net) ==
    IF net = "error" THEN JwtError("NetworkError")
    ELSE IF ~SignatureValid(token) THEN JwtError("InvalidSignature")
    ELSE IF TokenPayload(token).exp <= at THEN JwtError("TokenExpiredAt")
    ELSE IF TokenPayload(token).iat > at THEN JwtError("MalformedToken")
    ELSE Ok(TokenPayload(token))

\* serde_json::from_value::<Claims>: every field of Claims is required.
from_value(payload) ==
    IF {"sub", "username", "iat", "exp"} \subseteq DOMAIN payload
    THEN Ok([sub |-> payload.sub, username |-> payload.username,
             iat |-> payload.iat, exp |-> payload.exp])
    ELSE ParsingError

\* The cached claims of token if the cache holds them and at is before
\* their expiry.
CacheGet_IgnoresExpiry(cache, token, at) ==
    IF token \in DOMAIN cache
    THEN Some(cache[token].claims) ELSE None

\* A lookup that returns the claims of whichever entry the cache holds.
CacheGet_AnyToken(cache, token, at) ==
    IF \E k \in DOMAIN cache : at < cache[k].expiry
    THEN Some(cache[CHOOSE k \in DOMAIN cache : at < cache[k].expiry].claims) ELSE None

CacheGet(cache, token, at) ==
    IF token \in DOMAIN cache /\ at < cache[token].expiry
    THEN Some(cache[token].claims) ELSE None

\* The task panicked inside verify_token.
Panic == [tag |-> "Panic"]

\* claims.exp - claims.iat on usize: there is no value when iat is larger.
\* The debug build panics at the subtraction; the release build wraps to
\* 2^64 - (iat - exp) seconds, which Instant::now() + Duration cannot hold,
\* and panics at the addition.
Lifetime(claims) == IF claims.exp >= claims.iat THEN Some(claims.exp - claims.iat) ELSE None

\* Instant::now() + Duration::from_secs((claims.exp - claims.iat) as u64)
CacheExpiry(claims, at) == at + (claims.exp - claims.iat)

\* token_cache.insert(token.to_string(), (claims.clone(), expiry))
CacheInsert_KeyedBySub(cache, token, claims, expiry) ==
    [k \in DOMAIN cache \cup {claims.sub} |->
        IF k = claims.sub THEN [claims |-> claims, expiry |-> expiry] ELSE cache[k]]

\* An insert that clears the cache first.
CacheInsert_DropsOthers(cache, token, claims, expiry) ==
    [k \in {token} |-> [claims |-> claims, expiry |-> expiry]]

CacheInsert(cache, token, claims, expiry) ==
    [k \in DOMAIN cache \cup {token} |->
        IF k = token THEN [claims |-> claims, expiry |-> expiry] ELSE cache[k]]

\* verify_token after a lookup that returned nothing: remote verification,
\* deserialization, then the insert; an error leaves the cache alone.
VerifyAndCache_EvictsOnError(cache, token, at, net) ==
    LET verified == keyset_verify(token, at, net)
        parsed == from_value(verified.v)
        evicted == [k \in DOMAIN cache \ {token} |-> cache[k]]
    IN  IF verified.tag # "Ok" THEN [res |-> verified, cache |-> evicted]
        ELSE IF parsed.tag # "Ok" THEN [res |-> parsed, cache |-> evicted]
        ELSE IF is_none(Lifetime(parsed.v)) THEN [res |-> Panic, cache |-> cache]
        ELSE [res |-> Ok(parsed.v),
              cache |-> CacheInsert(cache, token, parsed.v, CacheExpiry(parsed.v, at))]

VerifyAndCache(cache, token, at, net) ==
    LET verified == keyset_verify(token, at, net)
        parsed == from_value(verified.v)
    IN  IF verified.tag # "Ok" THEN [res |-> verified, cache |-> cache]
        ELSE IF parsed.tag # "Ok" THEN [res |-> parsed, cache |-> cache]
        ELSE IF is_none(Lifetime(parsed.v)) THEN [res |-> Panic, cache |-> cache]
        ELSE [res |-> Ok(parsed.v),
              cache |-> CacheInsert(cache, token, parsed.v, CacheExpiry(parsed.v, at))]

\* A verify_token call that found nothing usable in the cache (lookup tells
\* whether there was no entry or an expired one) and awaits the key set.
PendingVerify(token, lookup) ==
    [state |-> "pending", op |-> "verify_token", token |-> token, lookup |-> lookup,
     remote |-> 0]

\* Task t calls verify_token(token): under the lock it looks the token up
\* and returns the cached claims if they have not expired; otherwise it
\* builds the verifier (built: whether that succeeds) and awaits the key set.
StartVerify(t, token, built) ==
    /\ calls[t].state = "idle"
    /\ LET hit == CacheGet(token_cache, token, now)
           lookup == IF token \in DOMAIN token_cache THEN "expired" ELSE "miss"
       IN  calls' = [calls EXCEPT ![t] =
                IF is_some(hit) THEN Done(PendingVerify(token, "hit"), Ok(hit.v))
                ELSE IF ~built
                THEN Done(PendingVerify(token, lookup), JwtError("VerifierBuild"))
                ELSE PendingVerify(token, lookup)]
    /\ UNCHANGED <<table, now, last, tombBy, token_cache, cached_key>>

\* The key set answers task t. An error, a payload that is not Claims and a
\* lifetime that has no value end the call; otherwise the call has its
\* claims and the expiry computed from the clock reading taken now, and
\* waits for the lock of the cache: the insert comes in a later step.
FinishVerify(t) ==
    /\ calls[t].state = "pending"
    /\ calls[t].op = "verify_token"
    /\ \E net \in Transport :
        LET c == [calls[t] EXCEPT !.remote = 1]
            o == VerifyAndCache(token_cache, c.token, now, net)
        IN  IF o.res.tag = "Ok"
            THEN /\ calls' = [calls EXCEPT ![t] =
                        [c EXCEPT !.state = "verified"]
                            @@ [claims |-> o.res.v, expiry |-> CacheExpiry(o.res.v, now)]]
                 /\ token_cache' = token_cache
            ELSE /\ calls' = [calls EXCEPT ![t] = Done(c, o.res)]
                 /\ token_cache' = o.cache
    /\ UNCHANGED <<table, now, last, tombBy, cached_key>>

\* Task t has the lock: it inserts its entry, with the expiry computed
\* before it waited, and returns its claims.
InsertVerified(t) ==
    /\ calls[t].state = "verified"
    /\ calls[t].op = "verify_token"
    /\ "guard" \notin DOMAIN calls[t]
    /\ token_cache' = CacheInsert(token_cache, calls[t].token, calls[t].claims,
                                  calls[t].expiry)
    /\ calls' = [calls EXCEPT ![t] = Done(calls[t], Ok(calls[t].claims))]
    /\ UNCHANGED <<table, now, last, tombBy, cached_key>>

\* The clock advances while tokens are verified.
AuthTick ==
    /\ now < MaxClock
    /\ now' = now + 1
    /\ UNCHANGED <<table, calls, last, tombBy, token_cache, cached_key>>

NextAuth ==
    \/ AuthTick
    \/ \E t \in Tasks, token \in Tokens, built \in BOOLEAN : StartVerify(t, token, built)
    \/ \E t \in Tasks : FinishVerify(t)
    \/ \E t \in Tasks : InsertVerified(t)

SpecAuth == Init /\ [][NextAuth]_vars

\* The same calls over every token an issuer can have signed.
NextAuthIssued ==
    \/ AuthTick
    \/ \E t \in Tasks, token \in IssuedTokens, built \in BOOLEAN : StartVerify(t, token, built)
    \/ \E t \in Tasks : FinishVerify(t)
    \/ \E t \in Tasks : InsertVerified(t)

SpecAuthIssued == Init /\ [][NextAuthIssued]_vars

\* ------------------------------------------------------------------ requests of a call

PendingDelete(id) == [state |-> "pending", op |-> "delete", id |-> id]

\* The repository calls a task can have in flight: one call of every method.
RepoCalls ==
    {[state |-> "pending", op |-> "get_item", id |-> id] : id \in Keys}
    \cup {PendingCreate(item) : item \in Items}
    \cup {PendingUpdate(item) : item \in Items}
    \cup {PendingDelete(id) : id \in Keys}
    \cup {PendingSoftDelete(id, u, 0) : id \in Keys, u \in Actors}
    \cup ScanCalls

\* A call in flight with the log of the outcomes of the requests it sent.
InFlight(c) == c @@ [sent |-> << >>]

\* The method of call c run against the table, its request carried by net.
RepoCall(tbl, c, net) ==
    CASE c.op = "get_item" -> Outcome(get_item(tbl, c.id, net), tbl)
      [] c.op = "create" -> create(tbl, c.item, net)
      [] c.op = "update" -> update(tbl, c.item, net)
      [] c.op = "delete" -> delete(tbl, c.id, net)
      [] c.op = "soft_delete" -> soft_delete(tbl, c.id, c.user_id, c.at, net)

\* The store answers the request of task t, which holds a call of one of the
\* single-request methods: the method returns what it makes of the answer.
ServeCall(t) ==
    /\ calls[t].state = "pending"
    /\ calls[t].op \in {"get_item", "create", "update", "delete", "soft_delete"}
    /\ \E net \in Transport :
        LET c == calls[t]
            o == RepoCall(table, c, net)
        IN  /\ table' = o.tbl
            /\ calls' = [calls EXCEPT ![t] = Done([c EXCEPT !.sent = Append(@, net)], o.res)]
    /\ UNCHANGED <<now, last, tombBy, token_cache, cached_key>>

\* Whether call c holds the guard of the token-cache mutex.
HoldsGuard(c) == "guard" \in DOMAIN c /\ c.guard

MutexFree == \A t \in Tasks : ~HoldsGuard(calls[t])

\* Task t calls verify_token(token) and takes the lock for the lookup; the
\* call waits while another task holds the guard. pc tells whether the guard
\* was taken for the lookup or for the insert.
VerifyLock(t, token) ==
    /\ calls[t].state = "idle"
    /\ MutexFree
    /\ calls' = [calls EXCEPT ![t] =
                    [state |-> "locked", op |-> "verify_token", token |-> token,
                     pc |-> "lookup", guard |-> TRUE, remote |-> 0, sent |-> << >>]]
    /\ UNCHANGED <<table, now, last, tombBy, token_cache, cached_key>>

\* verify_token whose lookup keeps the guard in a variable that lives on
\* while the key set is awaited.
AfterLookup_KeepsGuard(c, hit, built) ==
    IF is_some(hit) THEN Done([c EXCEPT !.guard = FALSE], Ok(hit.v))
    ELSE IF ~built THEN Done([c EXCEPT !.guard = FALSE], JwtError("VerifierBuild"))
    ELSE [c EXCEPT !.state = "pending"]

\* The call c after its lookup found hit: the guard is a temporary of the
\* if-let statement, dropped when the statement ends, by the return of the
\* cached claims or by falling through to the verifier build.
AfterLookup(c, hit, built) ==
    IF is_some(hit) THEN Done([c EXCEPT !.guard = FALSE], Ok(hit.v))
    ELSE IF ~built THEN Done([c EXCEPT !.guard = FALSE], JwtError("VerifierBuild"))
    ELSE [c EXCEPT !.state = "pending", !.guard = FALSE]

\* Task t, holding the guard, looks its token up, and goes on to the
\* verifier build (built: whether it succeeds) when the cache has no claims
\* that have not expired.
VerifyLookup(t, built) ==
    /\ calls[t].state = "locked"
    /\ calls[t].pc = "lookup"
    /\ calls' = [calls EXCEPT ![t] =
            AfterLookup(calls[t], CacheGet(token_cache, calls[t].token, now), built)]
    /\ UNCHANGED <<table, now, last, tombBy, token_cache, cached_key>>

\* The call c after the key set answered verified: an error, or a parsing
\* error, ends it; otherwise it has its claims and the expiry of the entry
\* it is about to insert.
AfterAnswer(c, verified, at) ==
    LET parsed == from_value(verified.v)
        got == [c EXCEPT !.remote = @ + 1,
                         !.sent = Append(@, IF verified.tag = "Ok" THEN "ok" ELSE "error")]
    IN  IF verified.tag # "Ok" THEN Done(got, verified)
        ELSE IF parsed.tag # "Ok" THEN Done(got, parsed)
        ELSE IF is_none(Lifetime(parsed.v)) THEN Done(got, Panic)
        ELSE [got EXCEPT !.state = "verified"]
                @@ [claims |-> parsed.v, expiry |-> CacheExpiry(parsed.v, at)]

\* The key set answers the verification task t awaits.
VerifyAnswer(t) ==
    /\ calls[t].state = "pending"
    /\ calls[t].op = "verify_token"
    /\ \E net \in Transport :
        calls' = [calls EXCEPT ![t] =
            AfterAnswer(calls[t], keyset_verify(calls[t].token, now, net), now)]
    /\ UNCHANGED <<table, now, last, tombBy, token_cache, cached_key>>

\* Task t takes the lock for the insert of its verified claims.
VerifyInsertLock(t) ==
    /\ calls[t].state = "verified"
    /\ MutexFree
    /\ calls' = [calls EXCEPT ![t] = [calls[t] EXCEPT !.state = "locked", !.pc = "insert",
                                                       !.guard = TRUE]]
    /\ UNCHANGED <<table, now, last, tombBy, token_cache, cached_key>>

\* Task t inserts its entry, drops the guard and returns its claims.
VerifyInsert(t) ==
    /\ calls[t].state = "locked"
    /\ calls[t].pc = "insert"
    /\ token_cache' = CacheInsert(token_cache, calls[t].token, calls[t].claims,
                                  calls[t].expiry)
    /\ calls' = [calls EXCEPT ![t] = Done([calls[t] EXCEPT !.guard = FALSE],
                                          Ok(calls[t].claims))]
    /\ UNCHANGED <<table, now, last, tombBy, cached_key>>

\* One task has a repository call in flight; the others are free to verify
\* tokens meanwhile. The table the calls meet holds one active record and
\* one tombstone.
InitCalls ==
    /\ table = [k \in Keys |->
                    IF k = KeyOrder[1]
                    THEN to_item([id |-> k, name |-> "Ann", age |-> 30,
                                  deleted_at |-> None, deleted_by |-> None])
                    ELSE to_item([id |-> k, name |-> "Bob", age |-> 30,
                                  deleted_at |-> Some(SecsToString(0)),
                                  deleted_by |-> Some("alice")])]
    /\ now = 0
    /\ last = [op |-> "none"]
    /\ tombBy = EmptyTable
    /\ token_cache = EmptyCache
    /\ cached_key = None
    /\ \E c \in RepoCalls :
            calls = [t \in Tasks |-> IF t = "t1" THEN InFlight(c) ELSE Idle]

NextCalls ==
    \/ \E t \in Tasks : ServeCall(t)
    \/ \E t \in Tasks : FetchPage(t)
    \/ \E t \in Tasks, token \in Tokens : VerifyLock(t, token)
    \/ \E t \in Tasks, built \in BOOLEAN : VerifyLookup(t, built)
    \/ \E t \in Tasks : VerifyAnswer(t)
    \/ \E t \in Tasks : VerifyInsertLock(t)
    \/ \E t \in Tasks : VerifyInsert(t)

SpecCalls == InitCalls /\ [][NextCalls]_vars

\* ------------------------------------------------------------------ request handlers

\* impl IntoResponse for OperationResult: the status of a result that is not
\* Success.
StatusOf(res) ==
    CASE res = ItemNotFound -> 404
      [] res = ItemAlreadyExists -> 409
      [] res = InternalError -> 500

\* What a handler leaves behind: the status of its response and the table.
Response(status, tbl) == [status |-> status, tbl |-> tbl]

\* routes::foo::get_by_id
foo_get_by_id(tbl, id, net) ==
    LET res == get_item(tbl, id, net)
    IN  IF res.tag = "Success" THEN Response(200, tbl) ELSE Response(StatusOf(res), tbl)

\* routes::foo::create: the id is a fresh v4 UUID, the body has name and age.
foo_create(tbl, uuid, name, age, net) ==
    LET item == [id |-> uuid, name |-> name, age |-> age,
                 deleted_at |-> None, deleted_by |-> None]
        o == create(tbl, item, net)
    IN  IF o.res.tag = "Success" THEN Response(201, o.tbl)
        ELSE Response(StatusOf(o.res), o.tbl)

\* update handler that does not compare the path id with the body's id.
foo_update_NoIdCheck(tbl, id, item, net) ==
    LET o == update(tbl, item, net)
    IN  IF o.res.tag = "Success" THEN Response(200, o.tbl)
        ELSE Response(StatusOf(o.res), o.tbl)

\* routes::foo::update
foo_update(tbl, id, item, net) ==
    IF id # item.id THEN Response(400, tbl)
    ELSE LET o == update(tbl, item, net)
         IN  IF o.res.tag = "Success" THEN Response(200, o.tbl)
             ELSE Response(StatusOf(o.res), o.tbl)

\* delete handler that records the subject of the claims.
foo_delete_BySub(tbl, id, claims, at, net) ==
    IF is_some(claims)
    THEN LET o == soft_delete(tbl, id, claims.v.sub, at, net)
         IN  IF o.res.tag = "Success" THEN Response(200, o.tbl)
             ELSE Response(StatusOf(o.res), o.tbl)
    ELSE Response(401, tbl)

\* routes::foo::delete: claims is the Option<Extension<Claims>> of the request.
foo_delete(tbl, id, claims, at, net) ==
    IF is_some(claims)
    THEN LET o == soft_delete(tbl, id, claims.v.username, at, net)
         IN  IF o.res.tag = "Success" THEN Response(200, o.tbl)
             ELSE Response(StatusOf(o.res), o.tbl)
    ELSE Response(401, tbl)

\* The shared secret of SecretAuth.
Secret == "s3cret"

\* secret_middleware: whether the request goes on to its handler; it puts no
\* claims into the request.
secret_middleware(header) == header = Some(Secret)

FooGetById(id, net) ==
    /\ last' = [op |-> "foo::get_by_id", status |-> foo_get_by_id(table, id, net).status]
    /\ UNCHANGED <<table, now, calls, tombBy, token_cache, cached_key>>

FooCreate(name, age, net) ==
    \E uuid \in Keys \ DOMAIN table :
        LET o == foo_create(table, uuid, name, age, net)
        IN  /\ table' = o.tbl
            /\ last' = [op |-> "foo::create", item_id |-> uuid, status |-> o.status]
            /\ UNCHANGED <<now, calls, tombBy, token_cache, cached_key>>

FooUpdate(id, item, net) ==
    LET o == foo_update(table, id, item, net)
    IN  /\ table' = o.tbl
        /\ last' = [op |-> "foo::update", id |-> id, item_id |-> item.id,
                    status |-> o.status]
        /\ UNCHANGED <<now, calls, tombBy, token_cache, cached_key>>

\* DELETE /foo/:id behind secret_middleware, the layer create_app installs:
\* a request without the secret is answered 401 by the layer, one with it
\* reaches the handler without claims, and the handler answers before it
\* awaits anything. Every task carries the layer create_app has put in front
\* of the routes.
FooDeleteBehindSecret(id, header, net) ==
    LET o == IF secret_middleware(header) THEN foo_delete(table, id, None, now, net)
             ELSE Response(401, table)
    IN  /\ calls["t1"].layer = "secret_middleware"
        /\ table' = o.tbl
        /\ last' = [op |-> "foo::delete", status |-> o.status]
        /\ UNCHANGED <<now, calls, tombBy, token_cache, cached_key>>

\* ------------------------------------------------------------------ middleware

\* An Authorization header value: ascii tells whether every byte is visible
\* ASCII, text is the value cut after its first space.
HeaderValue(ascii, text) == [ascii |-> ascii, text |-> text]

\* The Authorization headers of the requests: none, or a value.
Headers ==
    {None}
    \cup {Some(HeaderValue(TRUE, <<"Bearer ", token>>)) : token \in Tokens \cup {Secret, ""}}
    \cup {Some(HeaderValue(FALSE, <<"Bearer ", token>>)) : token \in {"good", Secret}}
    \cup {Some(HeaderValue(TRUE, <<token>>)) : token \in {"good", Secret}}
    \cup {Some(HeaderValue(TRUE, <<"Basic ", token>>)) : token \in {"good", Secret}}
    \cup {Some(HeaderValue(TRUE, <<"bearer ", token>>)) : token \in {"good", Secret}}
    \cup {Some(HeaderValue(TRUE, <<"Bearer ", Secret, "x">>))}

\* The string made of the pieces of text.
RECURSIVE Join(_)
Join(text) == IF text = << >> THEN "" ELSE Head(text) \o Join(Tail(text))

\* str::strip_prefix
strip_prefix(text, prefix) ==
    IF text # << >> /\ Head(text) = prefix THEN Some(Join(Tail(text))) ELSE None

\* A header parse that takes the whole value when the prefix is missing.
bearer_token_PrefixOptional(header) ==
    IF is_none(header) THEN None
    ELSE IF ~header.v.ascii THEN None
    ELSE IF is_some(strip_prefix(header.v.text, "Bearer "))
    THEN strip_prefix(header.v.text, "Bearer ")
    ELSE Some(Join(header.v.text))

\* headers().get("Authorization").and_then(to_str().ok())
\*     .and_then(strip_prefix("Bearer ")): to_str fails on a value that is
\* not visible ASCII.
bearer_token(header) ==
    IF is_none(header) THEN None
    ELSE IF ~header.v.ascii THEN None
    ELSE strip_prefix(header.v.text, "Bearer ")

\* What a middleware makes of a request: the result of verify_token if it
\* was called, the claims put into the request, whether the middleware ran
\* the downstream handler, and the status the middleware answers itself
\* when it did not.
Handled(verified, claims, ran, status) ==
    [verified |-> verified, claims |-> claims, ran |-> ran, status |-> status]

\* src/src/middleware.rs auth_middleware once verify_token has returned:
\* verified is that result, None when the header gave no bearer token and
\* verify_token was not called. The request goes on in every case, with the
\* claims of a token that verified.
auth_middleware(verified) ==
    IF is_some(verified) /\ verified.v.tag = "Ok"
    THEN Handled(verified, Some(verified.v.v), TRUE, 200)
    ELSE Handled(verified, None, TRUE, 200)

\* src/src/auth/cognito_middleware.rs auth_middleware: a failed verification
\* is answered with the error's own response.
cognito_auth_middleware(verified) ==
    IF is_none(verified) THEN Handled(None, None, TRUE, 200)
    ELSE IF verified.v.tag = "Ok" THEN Handled(verified, Some(verified.v.v), TRUE, 200)
    ELSE Handled(verified, None, FALSE, "AuthError")

\* rust_app middleware that lets a request without a token through.
rust_app_auth_middleware_TokenOptional(require_auth, verified) ==
    IF is_none(verified) THEN Handled(None, None, TRUE, 200)
    ELSE IF verified.v.tag = "Ok" THEN Handled(verified, Some(verified.v.v), TRUE, 200)
    ELSE IF require_auth THEN Handled(verified, None, FALSE, 401)
    ELSE Handled(verified, None, TRUE, 200)

\* src/rust_app/src/middleware.rs auth_middleware
rust_app_auth_middleware(require_auth, verified) ==
    IF is_some(verified) /\ verified.v.tag = "Ok"
    THEN Handled(verified, Some(verified.v.v), TRUE, 200)
    ELSE IF require_auth THEN Handled(verified, None, FALSE, 401)
    ELSE Handled(verified, None, TRUE, 200)

\* The layers that verify a bearer token.
AuthLayers ==
    {"auth_middleware", "cognito_middleware", "rust_app(require_auth)", "rust_app(public)"}

\* The middleware a layer names.
Middleware(layer, verified) ==
    CASE layer = "auth_middleware" -> auth_middleware(verified)
      [] layer = "cognito_middleware" -> cognito_auth_middleware(verified)
      [] layer = "rust_app(require_auth)" -> rust_app_auth_middleware(TRUE, verified)
      [] layer = "rust_app(public)" -> rust_app_auth_middleware(FALSE, verified)

\* secret_middleware that compares the whole header value with the secret.
secret_layer_NoPrefix(header) ==
    /\ is_some(header)
    /\ header.v.ascii
    /\ Join(header.v.text) = Secret

\* secret_middleware on the raw header: whether the request goes on.
secret_layer(header) == secret_middleware(bearer_token(header))

\* ------------------------------------------------------------------ requests

\* A request travels through an auth middleware to its handler. The task
\* that serves it gives way where the code awaits: while the key set is
\* asked about the token, and while the store works on the handler's
\* request; the other tasks and the clock move meanwhile. A request is its
\* route, its Authorization header and, for DELETE /foo/:id, the path id;
\* the route "next" stands for a handler that answers 200 at once.

\* What task t answers is recorded, and the task waits for the next request.
\* Of an answer of the delete handler the record keeps the status.
Answered(t, response) ==
    /\ calls' = [calls EXCEPT ![t] = [state |-> "idle", layer |-> calls[t].layer]]
    /\ last' = response

\* verify_token has returned verified to the middleware of request c of task
\* t (None: the header gave no token, nothing was verified), leaving cache.
\* The middleware answers, or puts the claims into the request and runs the
\* handler. The delete handler answers 401 to a request without claims;
\* one with claims is admitted and the handler goes on to soft_delete in a
\* later step, the lock of the cache long released. A verify_token that
\* panicked unwinds the task: neither the middleware nor the handler
\* answers.
Proceed(t, c, verified, cache) ==
    LET m == IF verified = Some(Panic) THEN Handled(verified, None, FALSE, "panic")
             ELSE Middleware(c.layer, verified)
    IN  /\ token_cache' = cache
        /\ IF c.route # "foo::delete"
           THEN /\ Answered(t, [op |-> c.layer, header |-> c.header,
                                verified |-> m.verified, claims |-> m.claims,
                                ran |-> m.ran, status |-> m.status])
           ELSE IF m.ran /\ is_some(m.claims)
           THEN /\ calls' = [calls EXCEPT ![t] =
                        [state |-> "admitted", op |-> "request", layer |-> c.layer,
                         route |-> c.route, id |-> c.id, header |-> c.header,
                         claims |-> m.claims]]
                /\ last' = last
           ELSE /\ Answered(t, [op |-> "foo::delete",
                                status |-> IF m.ran
                                           THEN foo_delete(table, c.id, m.claims, now, "ok").status
                                           ELSE m.status])
        /\ UNCHANGED <<table, now, tombBy, cached_key>>

\* A request reaches task t. The middleware takes the bearer token of the
\* header; without one the request goes on unverified. With one it calls
\* verify_token: under the lock the token is looked up and cached claims
\* that have not expired are returned; otherwise the verifier is built
\* (built: whether that succeeds) and the key set is awaited.
RequestArrives(t, request, built) ==
    /\ calls[t].state = "idle"
    /\ calls[t].layer \in AuthLayers
    /\ LET c == IF request.route = "foo::delete"
                THEN [state |-> "pending", op |-> "request", layer |-> calls[t].layer,
                      route |-> request.route, id |-> request.id,
                      header |-> request.header]
                ELSE [state |-> "pending", op |-> "request", layer |-> calls[t].layer,
                      route |-> request.route, header |-> request.header]
           token == bearer_token(request.header)
       IN  IF is_none(token) THEN Proceed(t, c, None, token_cache)
           ELSE IF is_some(CacheGet(token_cache, token.v, now))
           THEN Proceed(t, c, Some(Ok(CacheGet(token_cache, token.v, now).v)), token_cache)
           ELSE IF ~built THEN Proceed(t, c, Some(JwtError("VerifierBuild")), token_cache)
           ELSE /\ calls' = [calls EXCEPT ![t] = c]
                /\ UNCHANGED <<table, now, last, tombBy, token_cache, cached_key>>

\* The key set answers the request of task t. An error and a payload that
\* is not Claims go back to the middleware; otherwise the call has its
\* claims and the expiry computed from the clock reading taken now, and
\* waits for the lock of the cache.
KeySetAnswers(t, net) ==
    /\ calls[t].state = "pending"
    /\ calls[t].op = "request"
    /\ LET c == calls[t]
           o == VerifyAndCache(token_cache, bearer_token(c.header).v, now, net)
       IN  IF o.res.tag = "Ok"
           THEN /\ calls' = [calls EXCEPT ![t] =
                        IF c.route = "foo::delete"
                        THEN [state |-> "verified", op |-> c.op, layer |-> c.layer,
                              route |-> c.route, id |-> c.id, header |-> c.header,
                              claims |-> o.res.v,
                              expiry |-> CacheExpiry(o.res.v, now)]
                        ELSE [state |-> "verified", op |-> c.op, layer |-> c.layer,
                              route |-> c.route, header |-> c.header,
                              claims |-> o.res.v,
                              expiry |-> CacheExpiry(o.res.v, now)]]
                /\ UNCHANGED <<table, now, last, tombBy, token_cache, cached_key>>
           ELSE Proceed(t, c, Some(o.res), token_cache)

\* Task t has the lock: it inserts its entry, over whatever entry the token
\* has by now, with the expiry computed before it waited, and verify_token
\* returns the claims to the middleware.
RequestInserts(t) ==
    /\ calls[t].state = "verified"
    /\ calls[t].op = "request"
    /\ Proceed(t, calls[t], Some(Ok(calls[t].claims)),
               CacheInsert(token_cache, bearer_token(calls[t].header).v,
                           calls[t].claims, calls[t].expiry))

\* The delete handler of task t calls soft_delete for the claims of its
\* request: soft_delete reads the clock and sends its request to the store.
HandlerSends(t) ==
    /\ calls[t].state = "admitted"
    /\ calls[t].op = "request"
    /\ calls' = [calls EXCEPT ![t] =
            [state |-> "sent", op |-> "request", layer |-> calls[t].layer,
             route |-> calls[t].route, id |-> calls[t].id, header |-> calls[t].header,
             claims |-> calls[t].claims, at |-> now]]
    /\ UNCHANGED <<table, now, last, tombBy, token_cache, cached_key>>

\* The store works on the soft_delete request of task t, which carries the
\* clock reading taken when it was sent, and the delete handler answers.
StoreAnswers(t, net) ==
    /\ calls[t].state = "sent"
    /\ calls[t].op = "request"
    /\ LET c == calls[t]
           o == foo_delete(table, c.id, c.claims, c.at, net)
       IN  /\ table' = o.tbl
           /\ Answered(t, [op |-> "foo::delete", status |-> o.status])
    /\ UNCHANGED <<now, tombBy, token_cache, cached_key>>

\* POST /foo in the application create_app assembles: secret_middleware,
\* then routes::foo::create.
SecretCreateRequest(header, name, age, net) ==
    \E uuid \in IF secret_layer(header) THEN Keys \ DOMAIN table ELSE {KeyOrder[1]} :
        LET admitted == secret_layer(header)
            o == IF admitted THEN foo_create(table, uuid, name, age, net)
                 ELSE Response(401, table)
        IN  /\ calls["t1"].layer = "secret_middleware"
            /\ table' = o.tbl
            /\ last' = [op |-> "secret_middleware", header |-> header, verified |-> None,
                        claims |-> None, ran |-> admitted, status |-> o.status]
            /\ UNCHANGED <<now, calls, tombBy, token_cache, cached_key>>

\* The state after create_app: nothing stored, nothing cached, and every
\* task waits for a request behind the layer the application has, one of
\* layers.
InitApp(layers) ==
    /\ table = EmptyTable
    /\ now = 0
    /\ \E layer \in layers : calls = [t \in Tasks |-> [state |-> "idle", layer |-> layer]]
    /\ last = [op |-> "none"]
    /\ tombBy = EmptyTable
    /\ token_cache = EmptyCache
    /\ cached_key = None

\* The handlers of routes::foo, DELETE behind auth_middleware or behind
\* secret_middleware; one DELETE request at a time. The body of an update
\* is any item: Item has every field of the record.
NextHandlers ==
    \/ Tick
    \/ \E id \in Keys, net \in Transport : FooGetById(id, net)
    \/ \E name \in Names, age \in Ages, net \in Transport : FooCreate(name, age, net)
    \/ \E id \in Keys, item \in Items, net \in Transport : FooUpdate(id, item, net)
    \/ \E id \in Keys, header \in {None, Some(HeaderValue(TRUE, <<"Bearer ", "good">>))},
          built \in BOOLEAN :
            RequestArrives("t1", [route |-> "foo::delete", id |-> id, header |-> header],
                           built)
    \/ \E net \in Transport : KeySetAnswers("t1", net)
    \/ RequestInserts("t1")
    \/ HandlerSends("t1")
    \/ \E net \in Transport : StoreAnswers("t1", net)
    \/ \E id \in Keys, header \in {None, Some(Secret), Some("good")}, net \in Transport :
            FooDeleteBehindSecret(id, header, net)

SpecHandlers ==
    InitApp({"auth_middleware", "secret_middleware"}) /\ [][NextHandlers]_vars

\* DELETE requests behind auth_middleware served by two tasks at once, on
\* the items that POST requests create, none of them lost on the way to
\* the store; a DELETE request has no Authorization header, or the token
\* of alice or of bob.
NextDelete ==
    \/ Tick
    \/ \E age \in Ages : FooCreate("Ann", age, "ok")
    \/ \E t \in {"t1", "t2"}, id \in Keys, built \in BOOLEAN,
          header \in {None} \cup {Some(HeaderValue(TRUE, <<"Bearer ", token>>)) :
                                    token \in {"good", "skewed"}} :
            RequestArrives(t, [route |-> "foo::delete", id |-> id, header |-> header],
                           built)
    \/ \E t \in Tasks, net \in Transport : KeySetAnswers(t, net)
    \/ \E t \in Tasks : RequestInserts(t)
    \/ \E t \in Tasks : HandlerSends(t)
    \/ \E t \in Tasks, net \in Transport : StoreAnswers(t, net)

SpecDelete == InitApp({"auth_middleware"}) /\ [][NextDelete]_vars

\* Requests through the middleware of the application, two at a time, to a
\* handler that answers at once; behind secret_middleware, POST /foo.
NextMiddleware ==
    \/ Tick
    \/ \E t \in {"t1", "t2"}, header \in Headers, built \in BOOLEAN :
            RequestArrives(t, [route |-> "next", header |-> header], built)
    \/ \E t \in Tasks, net \in Transport : KeySetAnswers(t, net)
    \/ \E t \in Tasks : RequestInserts(t)
    \/ \E header \in Headers, name \in Names, age \in Ages, net \in Transport :
            SecretCreateRequest(header, name, age, net)

SpecMiddleware == InitApp(AuthLayers \cup {"secret_middleware"}) /\ [][NextMiddleware]_vars

\* ------------------------------------------------------------------ scans among writes

\* Task t1 starts a scan while each other task has a write in flight or
\* none: the store serves page requests and writes in any order. When the
\* scan starts a key holds nothing, an active record or a tombstone. The
\* writes in flight are one call of every writing method; the bodies of
\* create and update are any item, with or without a deleted_at and a
\* deleted_by of the caller's.
InitScanWrites ==
    /\ \E D \in SUBSET Keys : \E tomb \in SUBSET D :
            table = [k \in D |->
                        to_item([id |-> k, name |-> "Ann", age |-> 30,
                                 deleted_at |-> IF k \in tomb THEN Some(SecsToString(0))
                                                ELSE None,
                                 deleted_by |-> IF k \in tomb THEN Some("alice")
                                                ELSE None])]
    /\ now = 0
    /\ last = [op |-> "none"]
    /\ tombBy = EmptyTable
    /\ token_cache = EmptyCache
    /\ cached_key = None
    /\ \E c \in {x \in ScanCalls : x.op = "scan"},
          w \in [Tasks \ {"t1"} ->
                    {Idle}
                    \cup {PendingCreate(item) : item \in Items}
                    \cup {PendingUpdate(item) : item \in Items}
                    \cup {PendingDelete(id) : id \in Keys}
                    \cup {PendingSoftDelete(id, u, 0) : id \in Keys, u \in Actors}] :
            calls = [t \in Tasks |->
                        IF t = "t1" THEN InFlight(c)
                        ELSE IF w[t] = Idle THEN Idle ELSE InFlight(w[t])]

NextScanWrites ==
    \/ \E t \in Tasks : FetchPage(t)
    \/ \E t \in Tasks : ServeCall(t)

SpecScanWrites == InitScanWrites /\ [][NextScanWrites]_vars

\* ------------------------------------------------------------------ users

\* serde_dynamo::to_item for User: password_hash has no skip_serializing_if
\* and is written as NULL when None; deleted_at and deleted_by are skipped.
UserRecord(id, admin, deleted_at) ==
    LET attrs == {"id", "email", "username", "created_at", "email_verified",
                  "password_hash", "admin"}
                    \cup (IF is_some(deleted_at) THEN {"deleted_at", "deleted_by"} ELSE {})
    IN  [a \in attrs |->
            CASE a = "id" -> AttrS(id)
              [] a = "email" -> AttrS("ann@example.org")
              [] a = "username" -> AttrS("ann")
              [] a = "created_at" -> AttrS("2023-05-01")
              [] a = "email_verified" -> [BOOL |-> TRUE]
              [] a = "password_hash" -> AttrNull
              [] a = "admin" -> [BOOL |-> admin]
              [] a = "deleted_at" -> AttrS(deleted_at.v)
              [] a = "deleted_by" -> AttrS("admin")]

\* update_admin_status whose condition tests existence only.
update_admin_status_ExistsOnly(tbl, id, admin, net) ==
    LET r == DbUpdateItem(tbl, id, [a \in {"admin"} |-> [BOOL |-> admin]],
                          "attribute_exists(id)", net)
    IN  CASE r.err = "none" -> Outcome(Success(None), r.tbl)
          [] r.err = "ConditionalCheckFailedException" -> Outcome(ItemNotFound, r.tbl)
          [] OTHER -> Outcome(InternalError, r.tbl)

\* UserDynamoDbRepository::update_admin_status
update_admin_status(tbl, id, admin, net) ==
    LET r == DbUpdateItem(tbl, id, [a \in {"admin"} |-> [BOOL |-> admin]],
                          "attribute_exists(id) AND attribute_not_exists(deleted_at)", net)
    IN  CASE r.err = "none" -> Outcome(Success(None), r.tbl)
          [] r.err = "ConditionalCheckFailedException" -> Outcome(ItemNotFound, r.tbl)
          [] OTHER -> Outcome(InternalError, r.tbl)

\* routes::user::patch_admin_status
PatchAdminStatus(id, admin, net) ==
    LET o == update_admin_status(table, id, admin, net)
    IN  /\ table' = o.tbl
        /\ last' = [op |-> "update_admin_status", key |-> id, admin |-> admin,
                    res |-> o.res,
                    status |-> IF o.res.tag = "Success" THEN 200 ELSE StatusOf(o.res)]
        /\ UNCHANGED <<now, calls, tombBy, token_cache, cached_key>>

\* routes::user::delete: soft_delete with the fixed actor "admin"; at is the
\* clock reading soft_delete took before the store serves its request.
UserDelete(id, at, net) ==
    LET o == soft_delete(table, id, "admin", at, net)
    IN  /\ table' = o.tbl
        /\ last' = [op |-> "user::delete", key |-> id, res |-> o.res,
                    status |-> IF o.res.tag = "Success" THEN 204 ELSE StatusOf(o.res)]
        /\ UNCHANGED <<now, calls, tombBy, token_cache, cached_key>>

\* The user table holds any users, active or tombstoned, admin or not.
InitUsers ==
    /\ \E D \in SUBSET Keys : \E tomb \in SUBSET D, admins \in SUBSET D :
            table = [k \in D |->
                        UserRecord(k, k \in admins,
                                   IF k \in tomb THEN Some(SecsToString(0)) ELSE None)]
    /\ now = 0
    /\ calls = [t \in Tasks |-> Idle]
    /\ last = [op |-> "none"]
    /\ tombBy = EmptyTable
    /\ token_cache = EmptyCache
    /\ cached_key = None

NextUsers ==
    \/ Tick
    \/ \E id \in Keys, admin \in BOOLEAN, net \in Transport : PatchAdminStatus(id, admin, net)
    \/ \E id \in Keys, at \in 0..now, net \in Transport : UserDelete(id, at, net)

SpecUsers == InitUsers /\ [][NextUsers]_vars

\* ------------------------------------------------------------------ signing key

\* Duration::from_secs(3600): how long a fetched signing key is served from
\* the cache, in seconds.
KeyTtl == 3600

\* A write lock released before the fetch: it is never found taken.
WriteLockFree_ReleasedBeforeFetch == TRUE

\* self.cached_key.write().await returns once no task holds the guard. A
\* call holds the guard from there to its return, so a call that found a
\* fresh key has released it within its step and the calls holding it are
\* the ones waiting for the JWKS endpoint.
WriteLockFree == \A t \in Tasks : calls[t].state # "fetching"

\* auth_middleware has a request with an Authorization header and task t
\* calls get_decoding_key for it: the call queues for the write lock. A task
\* whose former request was answered takes the next one.
KeyCall(t) ==
    /\ calls[t].state \in {"idle", "done"}
    /\ calls' = [calls EXCEPT ![t] = [state |-> "waiting", op |-> "get_decoding_key",
                                      remote |-> 0]]
    /\ UNCHANGED <<table, now, last, tombBy, token_cache, cached_key>>

\* The call of task t gets the write guard: with a fresh key cached it
\* returns a clone of it and the guard is dropped; otherwise it sends the
\* JWKS request and awaits the response with the guard held.
KeyAcquire(t) ==
    /\ calls[t].state = "waiting"
    /\ WriteLockFree
    /\ calls' = [calls EXCEPT ![t] =
                    IF is_some(cached_key) /\ cached_key.v.expiry > now
                    THEN Done(@, Ok(cached_key.v.key))
                    ELSE [@ EXCEPT !.state = "fetching", !.remote = @ + 1]]
    /\ UNCHANGED <<table, now, last, tombBy, token_cache, cached_key>>

\* fetch_cognito_public_key of task t completes. With a key built from the
\* response the cache is overwritten with it, expiring KeyTtl after the
\* clock reading taken now; a reqwest error leaves through `?` and a
\* response without keys[0].n or keys[0].e panics in unwrap, both before the
\* assignment. The guard is dropped in every case.
KeyFetched(t, outcome, key) ==
    /\ calls[t].state = "fetching"
    /\ CASE outcome = "ok" ->
                /\ cached_key' = Some([key |-> key, expiry |-> now + KeyTtl])
                /\ calls' = [calls EXCEPT ![t] = Done(@, Ok(key))]
         [] outcome = "error" ->
                /\ cached_key' = cached_key
                /\ calls' = [calls EXCEPT ![t] =
                                Done(@, [tag |-> "Err", err |-> "reqwest::Error"])]
         [] outcome = "panic" ->
                /\ cached_key' = cached_key
                /\ calls' = [calls EXCEPT ![t] = Done(@, Panic)]
    /\ UNCHANGED <<table, now, last, tombBy, token_cache>>

\* Time passes to a later reading of Instant::now(): the seconds around one
\* and two lifetimes of a key.
KeyTick ==
    /\ \E at \in {1, KeyTtl - 1, KeyTtl, KeyTtl + 1, 2 * KeyTtl, 2 * KeyTtl + 1} :
            at > now /\ now' = at
    /\ UNCHANGED <<table, calls, last, tombBy, token_cache, cached_key>>

\* The JWKS endpoint serves one of two keys (it rotates them), fails, or
\* answers with a document that has no key.
NextKeyCache ==
    \/ KeyTick
    \/ \E t \in Tasks : KeyCall(t)
    \/ \E t \in Tasks : KeyAcquire(t)
    \/ \E t \in Tasks, outcome \in {"ok", "error", "panic"}, key \in {"key1", "key2"} :
            KeyFetched(t, outcome, key)

\* AuthState::new: no key is cached and no request is in flight.
SpecKeyCache == Init /\ [][NextKeyCache]_vars

\* ------------------------------------------------------------------ rust_app store calls

\* DynamoDb::get_item: an SDK error leaves through `?`; the record read is
\* deserialised into Item {id, name, age}, attributes the struct does not
\* name are ignored, and no deleted_at is looked at.
DynamoDb_get_item(tbl, id, net) ==
    LET r == DbGetItem(tbl, id, net)
        has(a, ty) == a \in DOMAIN r.item.v /\ DOMAIN r.item.v[a] = {ty}
    IN  IF r.err # "none" THEN [tag |-> "Err", err |-> r.err]
        ELSE IF is_none(r.item) THEN Ok(None)
        ELSE IF /\ has("id", "S") /\ has("name", "S") /\ has("age", "N")
                /\ r.item.v["age"].N >= 0
             THEN Ok(Some([id |-> r.item.v["id"].S, name |-> r.item.v["name"].S,
                           age |-> r.item.v["age"].N]))
             ELSE [tag |-> "Err", err |-> "serde_dynamo::Error"]

\* DynamoDb::create: id is the Uuid::new_v4 the call draws; the record is
\* put on condition attribute_not_exists(id) and every SDK error, the failed
\* condition included, leaves through `?`.
DynamoDb_create(tbl, id, create_item, net) ==
    LET attrs == [id |-> AttrS(id), name |-> AttrS(create_item.name),
                  age |-> AttrN(create_item.age)]
        r == DbPutItem(tbl, attrs, "attribute_not_exists(id)", net)
    IN  IF r.err = "none" THEN Outcome(Ok(id), r.tbl)
        ELSE Outcome([tag |-> "Err", err |-> r.err], r.tbl)

\* DynamoDb::update: the record is replaced by the three attributes of the
\* body on condition attribute_exists(id) alone.
DynamoDb_update(tbl, item, net) ==
    LET attrs == [id |-> AttrS(item.id), name |-> AttrS(item.name), age |-> AttrN(item.age)]
        r == DbPutItem(tbl, attrs, "attribute_exists(id)", net)
    IN  IF r.err = "none" THEN Outcome(Ok(<< >>), r.tbl)
        ELSE Outcome([tag |-> "Err", err |-> r.err], r.tbl)

\* DynamoDb::delete: delete_item without a condition expression.
DynamoDb_delete(tbl, id, net) ==
    LET r == DbDeleteItem(tbl, id, "", net)
    IN  IF r.err = "none" THEN Outcome(Ok(<< >>), r.tbl)
        ELSE Outcome([tag |-> "Err", err |-> r.err], r.tbl)

RustAppGetItem(id, net) ==
    /\ last' = [op |-> "get_item", key |-> id, res |-> DynamoDb_get_item(table, id, net)]
    /\ UNCHANGED <<table, now, calls, tombBy, token_cache, cached_key>>

RustAppCreate(id, create_item, net) ==
    LET o == DynamoDb_create(table, id, create_item, net)
    IN  /\ table' = o.tbl
        /\ last' = [op |-> "create", key |-> id, res |-> o.res]
        /\ UNCHANGED <<now, calls, tombBy, token_cache, cached_key>>

RustAppUpdate(item, net) ==
    LET o == DynamoDb_update(table, item, net)
    IN  /\ table' = o.tbl
        /\ last' = [op |-> "update", key |-> item.id, res |-> o.res]
        /\ UNCHANGED <<now, calls, tombBy, token_cache, cached_key>>

RustAppDelete(id, net) ==
    LET o == DynamoDb_delete(table, id, net)
    IN  /\ table' = o.tbl
        /\ last' = [op |-> "delete", key |-> id, res |-> o.res]
        /\ UNCHANGED <<now, calls, tombBy, token_cache, cached_key>>

\* The table is the one TEST_TABLE_NAME names, which other writers may have
\* filled: a key holds nothing, an active record, a tombstone, or a record
\* without the age field.
InitRustApp ==
    /\ table \in ScanTables
    /\ now = 0
    /\ calls = [t \in Tasks |-> Idle]
    /\ last = [op |-> "none"]
    /\ tombBy = EmptyTable
    /\ token_cache = EmptyCache
    /\ cached_key = None

\* One call at a time; the bodies are the Item and CreateItem values over
\* Names and Ages.
NextRustApp ==
    \/ \E id \in Keys, net \in Transport : RustAppGetItem(id, net)
    \/ \E id \in Keys, create_item \in [name : Names, age : Ages], net \in Transport :
            RustAppCreate(id, create_item, net)
    \/ \E item \in [id : Keys, name : Names, age : Ages], net \in Transport :
            RustAppUpdate(item, net)
    \/ \E id \in Keys, net \in Transport : RustAppDelete(id, net)

SpecRustApp == InitRustApp /\ [][NextRustApp]_vars

\* ------------------------------------------------------------------ per-key state

\* The three states of a key: no record, a record without deleted_at, a
\* record with deleted_at.
Absent(tbl, k) == k \notin DOMAIN tbl

Active(tbl, k) == k \in DOMAIN tbl /\ "deleted_at" \notin DOMAIN tbl[k]

Tombstoned(tbl, k) == k \in DOMAIN tbl /\ "deleted_at" \in DOMAIN tbl[k]

\* The ids of the items in a scan-family result.
IdsOf(items) == {items[i].id : i \in 1..Len(items)}

\* ------------------------------------------------------------------ C1

\* C1: whenever the store evaluates a create(x), it returns success if and
\* only if no record is stored under x.id at that moment, and then stores x;
\* on a stored key (active or tombstoned) it returns ItemAlreadyExists and
\* leaves the table unchanged. Hence a create that directly follows a
\* successful create of the same key returns ItemAlreadyExists.
C1_CreateIffAbsent ==
    [][\A item \in Items :
        (last'.op = "create" /\ last'.key = item.id /\ Create(item, "ok")) =>
            /\ (last'.res = Success(None)) <=> Absent(table, item.id)
            /\ Absent(table, item.id) =>
                    table' = TablePut(table, item.id, to_item(item))
            /\ ~Absent(table, item.id) =>
                    /\ last'.res = ItemAlreadyExists
                    /\ table' = table
            /\ (last.op = "create" /\ last.key = item.id
                    /\ last.res = Success(None)) =>
                    last'.res = ItemAlreadyExists]_vars

\* A create was refused with ItemAlreadyExists on a key that holds a
\* tombstoned record.
C1_Witness ==
    /\ last.op = "create"
    /\ last.res = ItemAlreadyExists
    /\ Tombstoned(table, last.key)

\* ------------------------------------------------------------------ C2

\* C2: while the record tombstoned by a successful soft_delete(k, actor) is
\* stored (no hard delete of k since), every get_item(k) the store answers
\* returns ItemNotFound, every successful scan() excludes k, every successful
\* get_deleted_items() contains k with deleted_by = actor, and every
\* successful get_deleted_items_by_user(actor) contains k.
C2_SoftDeletedHidden ==
    \A k \in DOMAIN tombBy :
        /\ (last.op = "get_item" /\ last.key = k /\ last.res # InternalError) =>
                last.res = ItemNotFound
        /\ (last.op = "scan" /\ last.res # InternalError) =>
                k \notin IdsOf(last.res.v.v)
        /\ (last.op = "get_deleted_items" /\ last.res # InternalError) =>
                \E i \in 1..Len(last.res.v.v) :
                    /\ last.res.v.v[i].id = k
                    /\ last.res.v.v[i].deleted_by = Some(tombBy[k])
        /\ (last.op = "get_deleted_items_by_user" /\ last.user_id = tombBy[k]
                /\ last.res # InternalError) =>
                k \in IdsOf(last.res.v.v)

\* get_deleted_items_by_user(actor) returned a key that actor soft-deleted,
\* while another record is active.
C2_Witness ==
    /\ last.op = "get_deleted_items_by_user"
    /\ last.res # InternalError
    /\ \E k \in DOMAIN tombBy :
            /\ tombBy[k] = last.user_id
            /\ k \in IdsOf(last.res.v.v)
    /\ \E k \in Keys : Active(table, k)

\* ------------------------------------------------------------------ C3

\* C3: whenever the store evaluates soft_delete(k, actor) on a key that is
\* tombstoned or absent, the call returns ItemNotFound and the table is
\* unchanged, so the deleted_at and deleted_by of a tombstoned record are
\* never overwritten by a later soft_delete.
C3_SoftDeleteNotIdempotent ==
    [][\A id \in Keys, u \in Actors :
        (/\ last'.op = "soft_delete"
         /\ \E at \in 0..now : SoftDelete(id, u, at, "ok")
         /\ ~Active(table, id)) =>
            /\ last'.res = ItemNotFound
            /\ table' = table]_vars

\* A second soft_delete, by another actor, was refused on a key that the
\* first actor tombstoned, and the record still names the first actor.
C3_Witness ==
    /\ last.op = "soft_delete"
    /\ last.res = ItemNotFound
    /\ last.key \in DOMAIN tombBy
    /\ tombBy[last.key] # last.user_id
    /\ table[last.key]["deleted_by"] = AttrS(tombBy[last.key])

\* ------------------------------------------------------------------ C4

\* C4: whenever the store evaluates update(x): on an absent or tombstoned
\* key the call returns ItemNotFound and the table is unchanged; on an active
\* key it returns success, the record becomes x, and a get_item(x.id) on the
\* resulting table returns exactly x.
C4_UpdateThenGet ==
    [][\A item \in Items :
        (last'.op = "update" /\ Update(item, "ok")) =>
            IF Active(table, item.id)
            THEN /\ last'.res = Success(None)
                 /\ table' = TablePut(table, item.id, to_item(item))
                 /\ get_item(table', item.id, "ok") = Success(Some(item))
            ELSE /\ last'.res = ItemNotFound
                 /\ table' = table]_vars

\* ------------------------------------------------------------------ C5

\* C5: a tombstoned record is changed by no step except a successful hard
\* delete of its key, which removes it: create, update and soft_delete, with
\* any arguments, leave it as it is.
C5_TombstoneTerminal ==
    [][\A k \in Keys :
        Tombstoned(table, k) =>
            \/ (k \in DOMAIN table' /\ table'[k] = table[k])
            \/ /\ k \notin DOMAIN table'
               /\ last'.op = "delete"
               /\ last'.key = k
               /\ last'.res = Success(None)]_vars

\* An update was refused on a tombstoned key.
C5_Witness ==
    /\ last.op = "update"
    /\ last.res = ItemNotFound
    /\ Tombstoned(table, last.key)

\* ------------------------------------------------------------------ C6

\* C6: every stored record has deleted_by if and only if it has deleted_at.
C6_DeletedByIffDeletedAt ==
    \A k \in DOMAIN table :
        ("deleted_by" \in DOMAIN table[k]) <=> ("deleted_at" \in DOMAIN table[k])

\* ------------------------------------------------------------------ C7

\* C7: a key leaves Absent only by a create and then is Active; a key goes
\* from Active to Tombstoned only by a soft_delete; an update of an active
\* key leaves it Active.
C7_StateMachine ==
    [][\A k \in Keys :
        /\ (Absent(table, k) /\ ~Absent(table', k)) =>
                (last'.op = "create" /\ last'.key = k /\ Active(table', k))
        /\ (Active(table, k) /\ Tombstoned(table', k)) =>
                (last'.op = "soft_delete" /\ last'.key = k)]_vars

\* ------------------------------------------------------------------ C8

\* C8 as stated: whenever the store evaluates delete(id), from any state of
\* the key, the call returns success and leaves the key Absent, and a second
\* delete(id) gives the same result and the same table.
C8_DeleteAlwaysSucceeds ==
    [][\A id \in Keys :
        (last'.op = "delete" /\ Delete(id, "ok")) =>
            /\ last'.res = Success(None)
            /\ Absent(table', id)
            /\ delete(table', id, "ok") = Outcome(last'.res, table')]_vars

\* C8 as amended: whenever the store evaluates delete(id), the key is Absent
\* afterwards and every other key is unchanged; the call returns success if
\* a record (active or tombstoned) was stored and ItemNotFound, changing
\* nothing, if the key was Absent; so a second delete(id) leaves the same
\* table as the first but returns ItemNotFound.
C8_DeleteConditional ==
    [][\A id \in Keys :
        (last'.op = "delete" /\ Delete(id, "ok")) =>
            /\ table' = TableRemove(table, id)
            /\ (last'.res = Success(None)) <=> ~Absent(table, id)
            /\ Absent(table, id) => (last'.res = ItemNotFound /\ table' = table)
            /\ delete(table', id, "ok") = Outcome(ItemNotFound, table')]_vars

\* A delete of an absent key returned ItemNotFound.
C8_Witness ==
    /\ last.op = "delete"
    /\ last.res = ItemNotFound
    /\ Absent(table, last.key)

\* ------------------------------------------------------------------ C9

\* The tasks whose call the store has answered, and those answered with res.
Served == {t \in Tasks : calls[t].state = "done" /\ calls[t].res # InternalError}

ServedWith(res) == {t \in Served : calls[t].res = res}

AllReturned == \A t \in Tasks : calls[t].state # "pending"

\* C9: when concurrent creates of one absent key have all returned, in every
\* order in which the store evaluated them, exactly one of the evaluated
\* calls returned success, all the others returned ItemAlreadyExists, and
\* the stored record is the body of the successful one.
C9_OneCreateWins ==
    (AllReturned /\ Served # {}) =>
        /\ Cardinality(ServedWith(Success(None))) = 1
        /\ Served \ ServedWith(Success(None)) = ServedWith(ItemAlreadyExists)
        /\ \A w \in ServedWith(Success(None)) :
                table = TablePut(EmptyTable, calls[w].item.id, to_item(calls[w].item))

\* Three concurrent creates were all evaluated: one succeeded, the other two,
\* one of them with a different body, returned ItemAlreadyExists.
C9_Witness ==
    /\ Served = Tasks
    /\ Cardinality(ServedWith(ItemAlreadyExists)) = 2
    /\ \E w \in ServedWith(Success(None)), l \in ServedWith(ItemAlreadyExists) :
            calls[w].item # calls[l].item

\* ------------------------------------------------------------------ C10

\* C10: when concurrent soft_deletes of one active key have all returned, in
\* every order in which the store evaluated them, exactly one of the
\* evaluated calls returned success, the others returned ItemNotFound, and
\* the record's deleted_by and deleted_at are the actor and the clock reading
\* of the successful call.
C10_OneSoftDeleteWins ==
    (AllReturned /\ Served # {}) =>
        /\ Cardinality(ServedWith(Success(None))) = 1
        /\ Served \ ServedWith(Success(None)) = ServedWith(ItemNotFound)
        /\ \A w \in ServedWith(Success(None)) :
                /\ table[calls[w].id]["deleted_by"] = AttrS(calls[w].user_id)
                /\ table[calls[w].id]["deleted_at"] = AttrS(SecsToString(calls[w].at))

\* Two concurrent soft_deletes by different actors were evaluated: one
\* succeeded, the other returned ItemNotFound.
C10_Witness ==
    /\ AllReturned
    /\ \E w \in ServedWith(Success(None)), l \in ServedWith(ItemNotFound) :
            calls[w].user_id # calls[l].user_id

\* ------------------------------------------------------------------ C11

\* C11: when an update and a soft_delete of one active key, running
\* concurrently, have both been evaluated by the store, in either order, the
\* key is tombstoned with deleted_by the actor of the soft_delete; the update
\* returned success only if the store evaluated it before the soft_delete,
\* and ItemNotFound otherwise.
C11_UpdateSoftDeleteRace ==
    \A tu \in Served, ts \in Served :
        (calls[tu].op = "update" /\ calls[ts].op = "soft_delete") =>
            /\ Tombstoned(table, calls[ts].id)
            /\ OptAttr(table[calls[ts].id], "deleted_by") = Some(calls[ts].user_id)
            /\ calls[tu].res \in {Success(None), ItemNotFound}
            /\ calls[tu].res = Success(None) => last.op = "soft_delete"
            /\ calls[tu].res = ItemNotFound => last.op = "update"

\* ------------------------------------------------------------------ C12

\* The operations whose result on key k is the same in the store tbl and in
\* the store that differs from tbl only in that k holds no record.
SameGetItem(tbl, k) ==
    \A net \in Transport : get_item(tbl, k, net) = get_item(TableRemove(tbl, k), k, net)

SameUpdate(tbl, k) ==
    \A x \in ItemsOf(k), net \in Transport :
        update(tbl, x, net).res = update(TableRemove(tbl, k), x, net).res

SameSoftDelete(tbl, k) ==
    \A u \in Actors, at \in 0..MaxTime, net \in Transport :
        soft_delete(tbl, k, u, at, net).res = soft_delete(TableRemove(tbl, k), k, u, at, net).res

SameCreate(tbl, k) ==
    \A x \in ItemsOf(k), net \in Transport :
        create(tbl, x, net).res = create(TableRemove(tbl, k), x, net).res

SameDelete(tbl, k) ==
    \A net \in Transport : delete(tbl, k, net).res = delete(TableRemove(tbl, k), k, net).res

SameScan(tbl, k) ==
    \A l \in 1..MaxPage, m \in BOOLEAN : scan(tbl, l, m, 0) = scan(TableRemove(tbl, k), l, m, 0)

\* C12 as stated: for every store with a tombstoned key k and the store that
\* differs from it only in that k is absent, get_item, update, soft_delete,
\* create, delete and scan return the same result on k in both.
C12_TombstoneLikeAbsent ==
    \A k \in Keys :
        Tombstoned(table, k) =>
            /\ SameGetItem(table, k)
            /\ SameUpdate(table, k)
            /\ SameSoftDelete(table, k)
            /\ SameCreate(table, k)
            /\ SameDelete(table, k)
            /\ SameScan(table, k)

\* C12, amended: for every store with a tombstoned key k and the store that
\* differs from it only in that k is absent, get_item, update, soft_delete
\* and scan return the same result in both; create and delete tell them
\* apart: an evaluated create returns ItemAlreadyExists on the tombstoned
\* key and success on the absent one, an evaluated delete returns success on
\* the tombstoned key and ItemNotFound on the absent one.
C12_TombstoneLikeAbsentExceptCreateDelete ==
    \A k \in Keys :
        Tombstoned(table, k) =>
            /\ SameGetItem(table, k)
            /\ SameUpdate(table, k)
            /\ SameSoftDelete(table, k)
            /\ SameScan(table, k)
            /\ \A x \in ItemsOf(k) :
                /\ create(table, x, "ok").res = ItemAlreadyExists
                /\ create(TableRemove(table, k), x, "ok").res = Success(None)
            /\ delete(table, k, "ok").res = Success(None)
            /\ delete(TableRemove(table, k), k, "ok").res = ItemNotFound

\* A scan of a store whose only record is tombstoned returned the empty
\* list, as it does on the empty store.
C12_Witness ==
    /\ last.op = "scan"
    /\ last.res = Success(Some(<< >>))
    /\ \E k \in Keys : Tombstoned(table, k) /\ DOMAIN table = {k}

\* ------------------------------------------------------------------ C13

\* The tasks whose scan-family call op has returned.
Returned(op) == {t \in Tasks : calls[t].state = "done" /\ calls[t].op = op}

\* items holds exactly the stored records of the keys ks, each once.
ExactlyRecords(items, ks) ==
    /\ IdsOf(items) = ks
    /\ Len(items) = Cardinality(ks)
    /\ \A i \in 1..Len(items) : Ok(items[i]) = from_item(table[items[i].id])

\* The last request of call c failed, or the table holds a record that is
\* not an Item.
FetchFailed(c) ==
    \/ c.requests[Len(c.requests)].err # "none"
    \/ \E k \in DOMAIN table : ~Deserializable(table[k])

\* C13: on a table nobody writes meanwhile, however the store cuts the table
\* into pages, a scan that returns a list returns exactly the active records,
\* each once; and it returns a list unless a request failed or a stored
\* record is not an Item.
C13_ScanExactlyActive ==
    \A t \in Returned("scan") :
        IF calls[t].res = InternalError THEN FetchFailed(calls[t])
        ELSE /\ calls[t].res.tag = "Success"
             /\ is_some(calls[t].res.v)
             /\ ExactlyRecords(calls[t].res.v.v, {k \in Keys : Active(table, k)})

\* A scan over a tombstoned and an active record took three requests: the
\* first page held only the filtered-out tombstoned record, the last page
\* was empty, and the result is the one active record.
C13_Witness ==
    \E t \in Returned("scan") :
        /\ calls[t].res # InternalError
        /\ Len(calls[t].requests) = 3
        /\ Tombstoned(table, KeyOrder[1])
        /\ Active(table, KeyOrder[2])
        /\ Len(calls[t].res.v.v) = 1

\* ------------------------------------------------------------------ C14

\* The tasks with a scan-family call, in flight or returned.
Scanning == {t \in Tasks : calls[t].state # "idle" /\ "requests" \in DOMAIN calls[t]}

\* The answer e to a request is a failure, or holds a record that does not
\* deserialize.
BadAnswer(e) ==
    \/ e.err # "none"
    \/ \E i \in 1..Len(e.items) : ~Deserializable(e.items[i])

\* C14: in scan, get_deleted_items and get_deleted_items_by_user, a request
\* that fails or brings a record that does not deserialize is the last one
\* the call sends, and the call has returned InternalError, which carries
\* none of the items pushed from the pages before.
C14_FailedPageEndsCall ==
    \A t \in Scanning :
        LET c == calls[t]
            n == Len(c.requests)
        IN  /\ \A i \in 1..(n - 1) : ~BadAnswer(c.requests[i])
            /\ (n > 0 /\ BadAnswer(c.requests[n])) =>
                    (c.state = "done" /\ c.res = InternalError)

\* The second request of a get_deleted_items call failed after the first
\* page had brought a record: the call returned InternalError.
C14_Witness ==
    \E t \in Returned("get_deleted_items") :
        /\ Len(calls[t].requests) = 2
        /\ calls[t].requests[2].err # "none"
        /\ calls[t].items # << >>
        /\ calls[t].res = InternalError

\* ------------------------------------------------------------------ C15

\* The requests of every scan-family call follow the cursor protocol: the
\* first carries no start key, each later one carries the last evaluated key
\* of the answer just before it, the call goes on while answers carry a key
\* and has returned its list at the first answer without one.
CursorProtocol ==
    \A t \in Scanning :
        LET c == calls[t]
            n == Len(c.requests)
        IN  /\ n > 0 => is_none(c.requests[1].start)
            /\ \A i \in 2..n :
                /\ is_some(c.requests[i - 1].last_evaluated_key)
                /\ c.requests[i].start = c.requests[i - 1].last_evaluated_key
            /\ c.state = "pending" =>
                    /\ \A i \in 1..n : is_some(c.requests[i].last_evaluated_key)
                    /\ n > 0 => c.last_evaluated_key = c.requests[n].last_evaluated_key
            /\ (c.state = "done" /\ c.res # InternalError) =>
                    (n > 0 /\ is_none(c.requests[n].last_evaluated_key))

\* C15: the pagination loop of the scan family always follows the cursor
\* protocol, and over a store that ends its pages after finitely many the
\* call eventually returns.
C15_CursorProtocolTerminates == []CursorProtocol /\ <>AllReturned

\* A get_deleted_items_by_user call returned its list after three requests,
\* the second and third carrying the keys the answers before them returned.
C15_Witness ==
    \E t \in Returned("get_deleted_items_by_user") :
        /\ calls[t].res # InternalError
        /\ Len(calls[t].requests) = 3
        /\ calls[t].requests[2].start = Some(KeyOrder[1])
        /\ calls[t].requests[3].start = Some(KeyOrder[2])
        /\ calls[t].res.v.v # << >>

\* ------------------------------------------------------------------ C16

\* C16: on a table nobody writes meanwhile, a get_deleted_items that returns
\* a list returns exactly the tombstoned records, a
\* get_deleted_items_by_user(u) exactly the tombstoned records whose
\* deleted_by is u, each once; and the lists of scan and get_deleted_items
\* share no record and together hold every stored record once.
C16_DeletedListings ==
    /\ (last.op = "get_deleted_items" /\ last.res # InternalError) =>
            ExactlyRecords(last.res.v.v, {k \in Keys : Tombstoned(table, k)})
    /\ (last.op = "get_deleted_items_by_user" /\ last.res # InternalError) =>
            ExactlyRecords(last.res.v.v,
                {k \in Keys : /\ Tombstoned(table, k)
                              /\ OptAttr(table[k], "deleted_by") = Some(last.user_id)})
    /\ \A l \in 1..MaxPage, m \in BOOLEAN :
        LET active == scan(table, l, m, 0).v.v
            deleted == get_deleted_items(table, l, m, 0).v.v
        IN  /\ IdsOf(active) \cap IdsOf(deleted) = {}
            /\ IdsOf(active) \cup IdsOf(deleted) = DOMAIN table
            /\ Len(active) + Len(deleted) = Cardinality(DOMAIN table)

\* get_deleted_items returned the one tombstoned record of a table that
\* also holds an active record.
C16_Witness ==
    /\ last.op = "get_deleted_items"
    /\ last.res # InternalError
    /\ Len(last.res.v.v) = 1
    /\ \E k \in Keys : Active(table, k)
    /\ \E k \in Keys : Tombstoned(table, k) /\ k \in DOMAIN tombBy

\* ------------------------------------------------------------------ C17

\* The verify_token call of task t begins, returns in this step.
Begins(t) == calls[t].state = "idle" /\ calls'[t].state # "idle"

Returns(t) == calls[t].state # "done" /\ calls'[t].state = "done"

\* C17: a verify_token(token) call that begins while the cache holds the
\* token with now before its expires_at returns the cached claims at once,
\* without a remote verification and without touching the cache; any other
\* call (no entry, or now at or after expires_at) goes to the remote
\* verification, exactly one, unless the verifier cannot be built, and when
\* that succeeds the call puts the verified claims into the cache under the
\* token, with expires_at = (exp - iat) after the clock reading it took when
\* the verification returned, and leaves the other entries alone.
C17_CacheHitUntilExpiry ==
    [][\A t \in Tasks :
        /\ Begins(t) =>
            LET token == calls'[t].token
            IN  IF token \in DOMAIN token_cache /\ now < token_cache[token].expiry
                THEN /\ calls'[t].state = "done"
                     /\ calls'[t].remote = 0
                     /\ calls'[t].res = Ok(token_cache[token].claims)
                     /\ token_cache' = token_cache
                ELSE /\ \/ calls'[t].state = "pending"
                        \/ /\ calls'[t].state = "done"
                           /\ calls'[t].remote = 0
                           /\ calls'[t].res = JwtError("VerifierBuild")
                     /\ token_cache' = token_cache
        /\ (~Begins(t) /\ Returns(t)) =>
            LET token == calls'[t].token
                res == calls'[t].res
            IN  /\ calls'[t].remote = 1
                /\ res.tag = "Ok" =>
                    /\ token \in DOMAIN token_cache'
                    /\ calls[t].state = "verified"
                    /\ token_cache'[token] = [claims |-> res.v, expiry |-> calls[t].expiry]
                    /\ \E at \in 0..now :
                            calls[t].expiry = at + (res.v.exp - res.v.iat)
                    /\ \A k \in DOMAIN token_cache \ {token} :
                            k \in DOMAIN token_cache' /\ token_cache'[k] = token_cache[k]
                /\ res.tag # "Ok" => token_cache' = token_cache
      ]_vars

\* Three calls for one token have returned: one verified it remotely when
\* the cache had no entry and one was served from the cache, both with its
\* claims; one found the entry expired and went to the remote verification,
\* which refused the token, by then past its exp, and the entry stayed.
C17_Witness ==
    \E t1 \in Tasks, t2 \in Tasks, t3 \in Tasks :
        /\ \A t \in {t1, t2, t3} : calls[t].state = "done"
        /\ \A t \in {t1, t2, t3} : calls[t].token = calls[t1].token
        /\ calls[t1].lookup = "miss" /\ calls[t1].remote = 1
        /\ calls[t1].res.tag = "Ok"
        /\ calls[t2].lookup = "hit" /\ calls[t2].remote = 0
        /\ calls[t2].res = calls[t1].res
        /\ calls[t3].lookup = "expired" /\ calls[t3].remote = 1
        /\ calls[t3].res = JwtError("TokenExpiredAt")
        /\ token_cache[calls[t1].token].claims = calls[t1].res.v

\* ------------------------------------------------------------------ C18

\* C18: verify_token never returns cached claims at a time later than the
\* exp of those claims.
C18_NoCachedClaimsPastExp ==
    [][\A t \in Tasks :
        (Begins(t) /\ Returns(t) /\ calls'[t].res.tag = "Ok") =>
            now <= calls'[t].res.v.exp
      ]_vars

\* ------------------------------------------------------------------ C19

\* C19: whatever the cache holds, a verify_token call for a bad token
\* returns an error, never Ok: the invalid-signature error for a token whose
\* signature fails, the token-expired error for a token past its exp, the
\* parsing error for a token whose payload does not parse into Claims (the
\* key set being unreachable and the verifier not being built are errors of
\* their own).
C19_BadTokenErrors ==
    [][\A t \in Tasks :
        Returns(t) =>
            LET token == calls'[t].token
                res == calls'[t].res
                reached == res \notin {JwtError("NetworkError"), JwtError("VerifierBuild")}
            IN  /\ ~SignatureValid(token) =>
                    (res.tag = "Err" /\ (reached => res = JwtError("InvalidSignature")))
                /\ (SignatureValid(token) /\ now > TokenPayload(token).exp) =>
                    (res.tag = "Err" /\ (reached => res = JwtError("TokenExpiredAt")))
                /\ (SignatureValid(token) /\ from_value(TokenPayload(token)).tag # "Ok") =>
                    (res.tag = "Err" /\
                     ((reached /\ now < TokenPayload(token).exp) => res = ParsingError))
      ]_vars

\* ------------------------------------------------------------------ C20

\* The tasks whose verify_token call returned Ok for token.
VerifiedOk(token) ==
    {t \in Tasks : /\ calls[t].state = "done"
                   /\ calls[t].token = token
                   /\ calls[t].res.tag = "Ok"}

\* C20: under every interleaving of verify_token calls, each cache entry is
\* a whole (claims, expires_at) pair that a call which verified that token
\* remotely inserted; calls that return Ok for one token return equal
\* claims, and once a remote verification of a token has succeeded the cache
\* holds one entry for it, under the token itself.
C20_CacheEntriesWhole ==
    /\ DOMAIN token_cache \subseteq Tokens
    /\ \A token \in DOMAIN token_cache :
        /\ DOMAIN token_cache[token] = {"claims", "expiry"}
        /\ \E t \in VerifiedOk(token) :
            /\ calls[t].remote = 1
            /\ calls[t].res.v = token_cache[token].claims
        /\ \E at \in 0..now :
                token_cache[token].expiry = CacheExpiry(token_cache[token].claims, at)
    /\ \A token \in Tokens :
        /\ \A t1 \in VerifiedOk(token), t2 \in VerifiedOk(token) :
                calls[t1].res.v = calls[t2].res.v
        /\ (\E t \in VerifiedOk(token) : calls[t].remote = 1) =>
                token \in DOMAIN token_cache

\* Two calls for one token both found the cache empty, both verified the
\* token remotely and both returned Ok; the cache holds one entry.
C20_Witness ==
    \E t1 \in Tasks, t2 \in Tasks :
        /\ t1 # t2
        /\ calls[t1].state = "done"
        /\ t1 \in VerifiedOk(calls[t1].token)
        /\ t2 \in VerifiedOk(calls[t1].token)
        /\ calls[t1].lookup = "miss" /\ calls[t1].remote = 1
        /\ calls[t2].lookup = "miss" /\ calls[t2].remote = 1
        /\ DOMAIN token_cache = {calls[t1].token}

\* ------------------------------------------------------------------ C21

\* C21: while now is before the expires_at of the entry of a token, no step
\* of any verify_token call, racing calls included, replaces or modifies
\* that entry.
C21_EntryReadOnlyUntilExpiry ==
    [][\A token \in DOMAIN token_cache :
        now < token_cache[token].expiry =>
            /\ token \in DOMAIN token_cache'
            /\ token_cache'[token] = token_cache[token]
      ]_vars

\* ------------------------------------------------------------------ C22

\* C22: the claims of every Ok that verify_token(token) returned are the
\* claims signed into that token, and some call for the same token that
\* verified it remotely returned the same; so a cache hit returns what was
\* inserted for the token, never the claims cached for another token.
C22_ClaimsOfTheToken ==
    \A t \in Tasks :
        (calls[t].state = "done" /\ calls[t].res.tag = "Ok") =>
            /\ calls[t].res = from_value(TokenPayload(calls[t].token))
            /\ \E t2 \in VerifiedOk(calls[t].token) :
                /\ calls[t2].remote = 1
                /\ calls[t2].res = calls[t].res

\* A call was served from the cache its token's own claims while the cache
\* also held unexpired claims of another token with another username.
C22_Witness ==
    \E t \in Tasks :
        /\ calls[t].state = "done"
        /\ calls[t].lookup = "hit"
        /\ calls[t].res.tag = "Ok"
        /\ \E other \in DOMAIN token_cache \ {calls[t].token} :
            /\ now < token_cache[other].expiry
            /\ token_cache[other].claims.username # calls[t].res.v.username

\* ------------------------------------------------------------------ C29

\* C29: a step in which a verify_token call returns an error (the verifier
\* was not built, the remote verification failed, or the claims did not
\* parse) leaves the token cache exactly as it was.
C29_ErrorLeavesCache ==
    [][\A t \in Tasks :
        (Returns(t) /\ calls'[t].res.tag = "Err") => token_cache' = token_cache
      ]_vars

\* A call found its token's entry expired, verified remotely and got an
\* error; the expired entry is still in the cache.
C29_Witness ==
    \E t \in Tasks :
        /\ calls[t].state = "done"
        /\ calls[t].lookup = "expired"
        /\ calls[t].remote = 1
        /\ calls[t].res.tag = "Err"
        /\ calls[t].token \in DOMAIN token_cache

\* ------------------------------------------------------------------ C30

\* C30: no step removes a cache entry; an entry changes only in the step in
\* which a call for the same token returns Ok after a remote verification;
\* and a call is served from the cache only while now is before the entry's
\* expires_at, so an expired entry stays stored and is never returned.
C30_CacheNeverSwept ==
    [][/\ DOMAIN token_cache \subseteq DOMAIN token_cache'
       /\ \A k \in DOMAIN token_cache :
            token_cache'[k] # token_cache[k] =>
                \E t \in Tasks :
                    /\ Returns(t) /\ ~Begins(t)
                    /\ calls'[t].token = k
                    /\ calls'[t].res.tag = "Ok"
       /\ \A t \in Tasks :
            (Begins(t) /\ Returns(t) /\ calls'[t].res.tag = "Ok") =>
                now < token_cache[calls'[t].token].expiry
      ]_vars

\* The cache holds two entries, one of them expired, after a call for the
\* expired token went to the remote verification and failed.
C30_Witness ==
    /\ Cardinality(DOMAIN token_cache) = 2
    /\ \E k \in DOMAIN token_cache :
        /\ token_cache[k].expiry <= now
        /\ \E t \in Tasks :
            /\ calls[t].state = "done"
            /\ calls[t].token = k
            /\ calls[t].lookup = "expired"
            /\ calls[t].res = JwtError("TokenExpiredAt")

\* ------------------------------------------------------------------ C25

\* C25: when create(x) succeeds for an item x without deleted_at, a get_item
\* of x.id on the table it leaves returns success with a record equal to x
\* field for field (id, name, age, no deleted_at, and the deleted_by of x,
\* which is none unless the caller put one into x); and the get_item that
\* directly follows a successful create of an active record returns the
\* stored record.
C25_CreateThenGet ==
    [][/\ \A item \in Items :
            (/\ last'.op = "create" /\ last'.key = item.id
             /\ Create(item, "ok")
             /\ last'.res = Success(None)
             /\ is_none(item.deleted_at)) =>
                /\ get_item(table', item.id, "ok") = Success(Some(item))
                /\ is_none(get_item(table', item.id, "ok").v.v.deleted_at)
                /\ is_none(item.deleted_by) =>
                        is_none(get_item(table', item.id, "ok").v.v.deleted_by)
       /\ \A id \in Keys :
            (/\ last.op = "create" /\ last.key = id /\ last.res = Success(None)
             /\ Active(table, id)
             /\ last'.op = "get_item" /\ last'.key = id
             /\ GetItem(id, "ok")) =>
                /\ last'.res.tag = "Success"
                /\ is_some(last'.res.v)
                /\ to_item(last'.res.v.v) = table[id]
      ]_vars

\* A get_item returned the record of a key that holds what a create stored:
\* name, age, no deleted_at and no deleted_by.
C25_Witness ==
    /\ last.op = "get_item"
    /\ last.res.tag = "Success"
    /\ last.res.v = Some([id |-> last.key, name |-> "Ann", age |-> 30,
                          deleted_at |-> None, deleted_by |-> None])
    /\ table[last.key] = to_item(last.res.v.v)

\* ------------------------------------------------------------------ C28

\* C28: a soft_delete(k, actor) that returns success leaves every other
\* record as it was and changes of record k only deleted_at and deleted_by;
\* a soft_delete that does not return success leaves the table as it was.
C28_SoftDeleteFrame ==
    [][\A id \in Keys, u \in Actors, at \in 0..now :
        (/\ last'.op = "soft_delete" /\ last'.key = id /\ last'.user_id = u
         /\ \E net \in Transport : SoftDelete(id, u, at, net)) =>
            IF last'.res = Success(None)
            THEN /\ DOMAIN table' = DOMAIN table
                 /\ \A k \in DOMAIN table \ {id} : table'[k] = table[k]
                 /\ DOMAIN table'[id] = DOMAIN table[id] \cup {"deleted_at", "deleted_by"}
                 /\ \A a \in DOMAIN table[id] \ {"deleted_at", "deleted_by"} :
                        table'[id][a] = table[id][a]
                 /\ table'[id]["deleted_by"] = AttrS(u)
                 /\ table'[id]["deleted_at"] = AttrS(SecsToString(at))
            ELSE table' = table
      ]_vars

\* A soft_delete by alice succeeded on a record named Bob while the other
\* key holds a record: the tombstoned record still has its name and age.
C28_Witness ==
    /\ last.op = "soft_delete"
    /\ last.res = Success(None)
    /\ last.user_id = "alice"
    /\ DOMAIN table = Keys
    /\ table[last.key]["name"] = AttrS("Bob")
    /\ table[last.key]["age"] = AttrN(30)
    /\ table[last.key]["deleted_by"] = AttrS("alice")

\* ------------------------------------------------------------------ C23

SingleRequestOps == {"get_item", "create", "update", "delete", "soft_delete"}

ScanOps == {"scan", "get_deleted_items", "get_deleted_items_by_user"}

\* C23: no call retries. A call of get_item, create, update, delete or
\* soft_delete has sent no request while it is in flight and exactly one when
\* it has returned, and it returned InternalError if that request failed. A
\* scan-family call sends one request per page, each starting where the
\* answer before it ended and none starting where an earlier one started; a
\* failed request is its last and the call returned InternalError. A
\* verify_token call asks the key set at most once, and returned an error if
\* that verification failed.
C23_NoRetries ==
    \A t \in Tasks :
        LET c == calls[t]
        IN  /\ (c.state # "idle" /\ c.op \in SingleRequestOps) =>
                    /\ c.state = "pending" => c.sent = << >>
                    /\ c.state = "done" =>
                        /\ Len(c.sent) = 1
                        /\ c.sent[1] = "error" => c.res = InternalError
            /\ (c.state # "idle" /\ c.op \in ScanOps) =>
                    /\ \A i \in 1..Len(c.requests) :
                        /\ c.requests[i].start =
                                IF i = 1 THEN None ELSE c.requests[i - 1].last_evaluated_key
                        /\ \A j \in 1..(i - 1) : c.requests[j].start # c.requests[i].start
                        /\ c.requests[i].err # "none" =>
                                /\ i = Len(c.requests)
                                /\ c.state = "done"
                                /\ c.res = InternalError
                    /\ c.state = "done" => Len(c.requests) >= 1
            /\ (c.state # "idle" /\ c.op = "verify_token") =>
                    /\ c.remote <= 1
                    /\ Len(c.sent) = c.remote
                    /\ (c.state = "done" /\ c.remote = 1 /\ c.sent[1] = "error") =>
                            c.res.tag = "Err"
                    /\ (c.state = "done" /\ c.remote = 0) =>
                            \/ c.res = JwtError("VerifierBuild")
                            \/ c.res = Ok(token_cache[c.token].claims)

\* A write whose only request failed has returned InternalError while a
\* verify_token call whose only verification failed has returned its error.
C23_Witness ==
    \E t1 \in Tasks : \E t2 \in Tasks \ {t1} :
        /\ calls[t1].state = "done"
        /\ calls[t1].op \in {"create", "update", "delete", "soft_delete"}
        /\ calls[t1].sent = <<"error">>
        /\ calls[t1].res = InternalError
        /\ calls[t2].state = "done"
        /\ calls[t2].op = "verify_token"
        /\ calls[t2].sent = <<"error">>
        /\ calls[t2].res.tag = "Err"

\* A scan-family call has returned after two pages, one request each.
C23_WitnessPages ==
    \E t \in Tasks :
        /\ calls[t].state = "done"
        /\ calls[t].op \in ScanOps
        /\ Len(calls[t].requests) = 2
        /\ calls[t].res.tag = "Success"

\* ------------------------------------------------------------------ C24

\* C24: the guard of the token-cache mutex is held only inside verify_token's
\* lookup and insert, by one task at a time: no call that awaits a remote
\* answer (the store's or the key set's) holds it, repository calls never
\* hold it, and so, whatever verifications are pending, a task that wants
\* the lock for a lookup or for an insert gets it unless another task is
\* inside its own lookup or insert at that moment.
C24_NoLockAcrossAwait ==
    /\ \A t \in Tasks : HoldsGuard(calls[t]) =>
            /\ calls[t].state = "locked"
            /\ calls[t].op = "verify_token"
            /\ \A t2 \in Tasks \ {t} : ~HoldsGuard(calls[t2])
    /\ \A t \in Tasks :
            (\A t2 \in Tasks : calls[t2].state # "locked") =>
                /\ calls[t].state = "idle" =>
                        \A token \in Tokens : ENABLED VerifyLock(t, token)
                /\ calls[t].state = "verified" => ENABLED VerifyInsertLock(t)

\* While one verification awaits the key set and a repository call awaits
\* the store, another task is inside its lookup.
C24_Witness ==
    \E t1 \in Tasks : \E t2 \in Tasks \ {t1} : \E t3 \in Tasks \ {t1, t2} :
        /\ calls[t1].state = "pending" /\ calls[t1].op \in SingleRequestOps
        /\ calls[t2].state = "pending" /\ calls[t2].op = "verify_token"
        /\ calls[t3].state = "locked" /\ HoldsGuard(calls[t3])

\* ------------------------------------------------------------------ C26

\* C26: the id of a stored record never changes: every record carries the id
\* it is keyed by, and a record that is still stored after a step has the id
\* it had before. The update handler writes no record but the one keyed by
\* the body's id; when the path id differs from the body's id it answers 400
\* and leaves the table as it was, and it answers 400 in no other case.
C26_IdImmutable ==
    [][/\ \A k \in DOMAIN table : table[k]["id"] = AttrS(k)
       /\ \A k \in DOMAIN table \cap DOMAIN table' : table'[k]["id"] = table[k]["id"]
       /\ last'.op = "foo::update" =>
            /\ \A k \in Keys \ {last'.item_id} : Stored(table', k) = Stored(table, k)
            /\ last'.id # last'.item_id => (last'.status = 400 /\ table' = table)
            /\ last'.id = last'.item_id => last'.status # 400]_vars

\* The update handler has answered 400 to a path id that differs from the
\* body's id while the table holds records.
C26_Witness ==
    /\ last.op = "foo::update"
    /\ last.id # last.item_id
    /\ last.status = 400
    /\ last.item_id \in DOMAIN table
    /\ last.id \in DOMAIN table

\* The update handler has rewritten the record its path and body name.
C26_WitnessWritten ==
    /\ last.op = "foo::update"
    /\ last.id = last.item_id
    /\ last.status = 200
    /\ table[last.id]["name"] = AttrS("Bob")
    /\ DOMAIN table = Keys

\* ------------------------------------------------------------------ C27

\* C27: a step that changes a record of the table, short of creating it, is
\* the store answering the soft_delete of a DELETE request: it tombstones
\* the record of the path id, until then active, with deleted_by the
\* username of the claims the request carries; the request is answered 200
\* and nothing else in the table changes. A request is admitted to the
\* handler's soft_delete, and sent on to the store, only with claims, and
\* these are the claims the verifier holds for the request's bearer token,
\* the ones signed into it; what is sent is what was admitted, stamped with
\* the clock as it reads at the send; only a request with a bearer token
\* waits for the key set. Every answer to a DELETE request
\* that is not the store's is 401, and the table stays as it was: so are
\* answered the request without a bearer token and the one whose token did
\* not verify.
C27_AuditAttribution ==
    [][/\ (table' # table /\ DOMAIN table' = DOMAIN table) =>
            \E t \in Tasks :
                /\ calls[t].state = "sent"
                /\ calls'[t].state = "idle"
                /\ last' = [op |-> "foo::delete", status |-> 200]
                /\ Active(table, calls[t].id)
                /\ Tombstoned(table', calls[t].id)
                /\ OptAttr(table'[calls[t].id], "deleted_by")
                        = Some(calls[t].claims.v.username)
                /\ \A k \in Keys \ {calls[t].id} : Stored(table', k) = Stored(table, k)
       /\ \A t \in Tasks :
            /\ calls'[t].state \in {"admitted", "sent"} =>
                /\ is_some(calls'[t].claims)
                /\ is_some(bearer_token(calls'[t].header))
                /\ bearer_token(calls'[t].header).v \in DOMAIN token_cache'
                /\ token_cache'[bearer_token(calls'[t].header).v].claims
                        = calls'[t].claims.v
                /\ Ok(calls'[t].claims.v)
                        = from_value(TokenPayload(bearer_token(calls'[t].header).v))
            /\ calls'[t].state = "pending" => is_some(bearer_token(calls'[t].header))
            /\ (calls[t].state = "admitted" /\ calls'[t].state # "admitted") =>
                /\ calls'[t].state = "sent"
                /\ calls'[t].claims = calls[t].claims
                /\ calls'[t].id = calls[t].id
                /\ calls'[t].at = now
            /\ (calls[t].state \in {"pending", "verified"} /\ calls'[t].state = "idle") =>
                (last' = [op |-> "foo::delete", status |-> 401] /\ table' = table)
       /\ (/\ last'.op = "foo::delete"
           /\ last' # last
           /\ \A t \in Tasks : ~(calls[t].state = "sent" /\ calls'[t].state = "idle")) =>
                (last'.status = 401 /\ table' = table)]_vars

\* The delete handler has tombstoned a record for the claims of a token it
\* took from the cache, and the record names the token's username.
C27_Witness ==
    /\ last = [op |-> "foo::delete", status |-> 200]
    /\ \A t \in Tasks : calls[t].state = "idle"
    /\ "good" \in DOMAIN token_cache
    /\ token_cache["good"].expiry = 3
    /\ \E id \in DOMAIN table :
        /\ Tombstoned(table, id)
        /\ OptAttr(table[id], "deleted_by") = Some("alice")
        /\ OptAttr(table[id], "deleted_at") = Some(SecsToString(1))

\* Two requests with the same token were verified side by side, and the
\* second insert replaced an entry that had not expired; the store has not
\* yet served a soft_delete that was sent a second ago.
C27_WitnessRaced ==
    /\ now = 1
    /\ "good" \in DOMAIN token_cache
    /\ token_cache["good"].expiry = 4
    /\ \E t \in Tasks :
        /\ calls[t].state = "sent"
        /\ calls[t].at = 0
        /\ Active(table, calls[t].id)

\* The store has served, a second late, the soft_delete of a request: the
\* tombstone carries the second the request was sent in.
C27_WitnessLate ==
    /\ now = 1
    /\ last = [op |-> "foo::delete", status |-> 200]
    /\ "good" \in DOMAIN token_cache
    /\ token_cache["good"].expiry = 3
    /\ \A t \in Tasks : calls[t].state = "idle"
    /\ \E id \in DOMAIN table :
        /\ OptAttr(table[id], "deleted_at") = Some(SecsToString(0))
        /\ OptAttr(table[id], "deleted_by") = Some("alice")

\* A request verified in the first second waits, admitted with alice's
\* claims, for its handler to read the clock, which has moved on since; the
\* request of another task was sent in the first second.
C27_WitnessAdmitted ==
    /\ now = 1
    /\ "good" \in DOMAIN token_cache
    /\ token_cache["good"].expiry = 3
    /\ \E t \in Tasks : \E u \in Tasks \ {t} :
        /\ calls[t].state = "admitted"
        /\ calls[t].claims.v.username = "alice"
        /\ calls[u].state = "sent"
        /\ calls[u].at = 0

\* A request has been answered 401 while the table holds an active record.
C27_WitnessUnauthorized ==
    /\ last = [op |-> "foo::delete", status |-> 401]
    /\ \E id \in Keys : Active(table, id)

\* ------------------------------------------------------------------ C31

\* C31: in every state that create, update, soft_delete and delete can bring
\* the table to, and however the store cuts the pages, get_item(k) returns a
\* record exactly when scan lists key k, and then scan lists that very
\* record; and get_item(k) answers ItemNotFound for a stored key k exactly
\* when get_deleted_items lists k.
C31_GetItemAgreesWithScan ==
    \A l \in 1..MaxPage, m \in BOOLEAN :
        LET active == scan(table, l, m, 0).v.v
            deleted == get_deleted_items(table, l, m, 0).v.v
        IN  \A k \in Keys :
                LET got == get_item(table, k, "ok")
                IN  /\ got.tag = "Success" <=> k \in IdsOf(active)
                    /\ got.tag = "Success" =>
                            \E i \in 1..Len(active) : Some(active[i]) = got.v
                    /\ (k \in DOMAIN table /\ got = ItemNotFound) <=> k \in IdsOf(deleted)

\* The table holds a record that get_item returns and scan lists, a record
\* tombstoned by soft_delete and a state reached by an update that wrote a
\* deleted_at of the caller's.
C31_Witness ==
    /\ last.op = "update"
    /\ last.res = Success(None)
    /\ Tombstoned(table, last.key)
    /\ \E k \in Keys : Active(table, k) /\ get_item(table, k, "ok").tag = "Success"

\* ------------------------------------------------------------------ C32

\* The items a page fetch of task t has just pushed.
Pushed(t) ==
    SubSeq(calls'[t].items, Len(calls[t].items) + 1, Len(calls'[t].items))

\* C32: while create, update, delete and soft_delete requests are served
\* between the page fetches of a scan, every item a fetch pushes is the
\* record stored under its id when the page was fetched, which was active
\* then; no fetch removes or alters the items pushed before; and the list
\* the scan has collected holds no item with a deleted_at and no id twice.
C32_ScanAmongWrites ==
    [][\A t \in Tasks :
        (calls[t].state = "pending" /\ calls[t].op = "scan") =>
            /\ SubSeq(calls'[t].items, 1, Len(calls[t].items)) = calls[t].items
            /\ \A i \in 1..Len(Pushed(t)) :
                    /\ Active(table, Pushed(t)[i].id)
                    /\ to_item(Pushed(t)[i]) = table[Pushed(t)[i].id]
            /\ \A i \in 1..Len(calls'[t].items) :
                    /\ is_none(calls'[t].items[i].deleted_at)
                    /\ \A j \in 1..(i - 1) : calls'[t].items[j].id # calls'[t].items[i].id
            /\ calls'[t].state = "done" =>
                    \/ calls'[t].res = InternalError
                    \/ calls'[t].res = Success(Some(calls'[t].items))]_vars

\* A scan has returned, in two pages, a record that was tombstoned after its
\* page was fetched, beside a record created after the scan began.
C32_Witness ==
    \E t \in Tasks :
        /\ calls[t].state = "done"
        /\ calls[t].op = "scan"
        /\ calls[t].res.tag = "Success"
        /\ Len(calls[t].requests) = 2
        /\ Len(calls[t].res.v.v) = 2
        /\ Tombstoned(table, calls[t].res.v.v[1].id)
        /\ \E w \in Tasks : /\ calls[w].state = "done"
                             /\ calls[w].op = "create"
                             /\ calls[w].res = Success(None)
                             /\ calls[w].item.id = calls[t].res.v.v[2].id

\* ------------------------------------------------------------------ C33

\* Whether the header is a value of visible ASCII that starts with "Bearer ".
HasBearerPrefix(header) ==
    /\ is_some(header)
    /\ header.v.ascii
    /\ Head(header.v.text) = "Bearer "

\* C33: in each auth middleware, a request carries claims only if its header
\* has the Bearer prefix and verify_token returned Ok with these very claims
\* for the rest of the header, the claims signed into that token and held by
\* the cache for it; a request with no header, with a header that is not
\* visible ASCII or lacks the prefix, or whose verification failed carries
\* no claims.
C33_ClaimsOnlyFromOwnToken ==
    last.op \in AuthLayers =>
        /\ is_some(last.claims) =>
            /\ last.ran
            /\ HasBearerPrefix(last.header)
            /\ last.verified = Some(Ok(last.claims.v))
            /\ Join(Tail(last.header.v.text)) \in DOMAIN token_cache
            /\ token_cache[Join(Tail(last.header.v.text))].claims = last.claims.v
            /\ Ok(last.claims.v) = from_value(TokenPayload(Join(Tail(last.header.v.text))))
        /\ ~HasBearerPrefix(last.header) => (is_none(last.claims) /\ is_none(last.verified))
        /\ (is_some(last.verified) /\ last.verified.v.tag = "Err") => is_none(last.claims)

\* A request with bob's token has gone through the cognito middleware with
\* bob's claims while the cache also holds alice's.
C33_Witness ==
    /\ last.op = "cognito_middleware"
    /\ last.ran
    /\ is_some(last.claims)
    /\ last.claims.v.username = "bob"
    /\ "good" \in DOMAIN token_cache

\* ------------------------------------------------------------------ C34

\* C34: secret_middleware lets a request go on to its handler exactly when
\* its Authorization header is visible ASCII and reads "Bearer " followed by
\* the secret and nothing more; every other request is answered 401 and
\* leaves the table as it was.
C34_SecretGate ==
    [][last'.op = "secret_middleware" =>
        /\ last'.ran <=> last'.header = Some(HeaderValue(TRUE, <<"Bearer ", Secret>>))
        /\ ~last'.ran => (last'.status = 401 /\ table' = table)]_vars

\* A request with the secret has created a record, and the table holds it.
C34_Witness ==
    /\ last.op = "secret_middleware"
    /\ last.ran
    /\ last.status = 201
    /\ DOMAIN table # {}

\* A request with the secret and one more character has been refused.
C34_WitnessRefused ==
    /\ last.op = "secret_middleware"
    /\ ~last.ran
    /\ last.header = Some(HeaderValue(TRUE, <<"Bearer ", Secret, "x">>))
    /\ last.status = 401

\* ------------------------------------------------------------------ C36

VerifiedOk36(m) == is_some(m.verified) /\ m.verified.v.tag = "Ok"

\* C36: the rust_app middleware calls verify_token exactly for the requests
\* whose header has the Bearer prefix. With require_auth it runs the handler
\* exactly when verify_token returned Ok and answers 401 otherwise; without
\* require_auth it always runs the handler, and the request carries claims
\* exactly when verify_token returned Ok, those claims.
C36_RequireAuth ==
    /\ last.op \in {"rust_app(require_auth)", "rust_app(public)"} =>
            /\ is_some(last.verified) <=> HasBearerPrefix(last.header)
            /\ is_some(last.claims) <=> (last.ran /\ VerifiedOk36(last))
            /\ is_some(last.claims) => last.verified = Some(Ok(last.claims.v))
    /\ last.op = "rust_app(require_auth)" =>
            /\ last.ran <=> VerifiedOk36(last)
            /\ ~last.ran => last.status = 401
    /\ last.op = "rust_app(public)" => last.ran

\* A request with a badly signed token has been answered 401 by the
\* middleware that requires auth.
C36_Witness ==
    /\ last.op = "rust_app(require_auth)"
    /\ last.header = Some(HeaderValue(TRUE, <<"Bearer ", "badsig">>))
    /\ ~last.ran
    /\ last.status = 401

\* The same request has reached the handler of a public route, without claims.
C36_WitnessPublic ==
    /\ last.op = "rust_app(public)"
    /\ last.header = Some(HeaderValue(TRUE, <<"Bearer ", "badsig">>))
    /\ last.ran
    /\ is_none(last.claims)

\* ------------------------------------------------------------------ C35

\* C35: in the application create_app assembles, a DELETE /foo/:id request
\* that carries the secret and names an active item, and whose store request
\* is not lost, leaves the item tombstoned.
C35_AdmittedDeleteTombstones ==
    [][\A id \in Keys :
        (Active(table, id) /\ FooDeleteBehindSecret(id, Some(Secret), "ok")) =>
            Tombstoned(table', id)]_vars

\* ------------------------------------------------------------------ C37

\* C37: update_admin_status(id, admin) succeeds exactly when its request
\* reaches the store and the record of id is stored and not tombstoned; it
\* then sets the admin attribute of that record to admin and changes no
\* other attribute of it, deleted_at and deleted_by included, and no other
\* record. Otherwise the table stays as it was, and the call returns
\* ItemNotFound when the store found id absent or tombstoned.
C37_AdminStatusFrame ==
    [][\A id \in Keys, admin \in BOOLEAN, net \in Transport :
        (last'.op = "update_admin_status" /\ PatchAdminStatus(id, admin, net)) =>
            /\ last'.res = Success(None) <=> (net = "ok" /\ Active(table, id))
            /\ (net = "ok" /\ ~Active(table, id)) => last'.res = ItemNotFound
            /\ last'.res # Success(None) => table' = table
            /\ last'.res = Success(None) =>
                /\ DOMAIN table' = DOMAIN table
                /\ \A k \in DOMAIN table \ {id} : table'[k] = table[k]
                /\ DOMAIN table'[id] = DOMAIN table[id]
                /\ \A a \in DOMAIN table[id] \ {"admin"} : table'[id][a] = table[id][a]
                /\ table'[id]["admin"] = [BOOL |-> admin]]_vars

\* A user has been made admin beside a tombstoned admin, and the last call,
\* on the tombstoned user, returned ItemNotFound.
C37_Witness ==
    /\ last.op = "update_admin_status"
    /\ last.res = ItemNotFound
    /\ last.status = 404
    /\ Tombstoned(table, last.key)
    /\ table[last.key]["admin"] = [BOOL |-> TRUE]
    /\ last.admin = FALSE
    /\ \E k \in Keys : Active(table, k) /\ table[k]["admin"] = [BOOL |-> TRUE]

\* ------------------------------------------------------------------ C38

\* C38: no verify_token call panics. A call whose remote verification and
\* claims parsing succeeded has claims with iat no later than exp, took its
\* reading of the clock from iat on and before exp, and computes as expiry
\* that reading plus exp - iat, a duration that is not negative and is the
\* token's validity window; the entry it then inserts carries that expiry,
\* and the call returns its claims.
C38_LifetimeWithinValidity ==
    [][\A t \in Tasks :
        /\ calls'[t].state = "done" => calls'[t].res.tag \in {"Ok", "Err"}
        /\ (calls[t].state = "pending" /\ calls'[t].state = "verified") =>
            /\ calls'[t].claims.iat <= calls'[t].claims.exp
            /\ calls'[t].claims.iat <= now
            /\ now < calls'[t].claims.exp
            /\ is_some(Lifetime(calls'[t].claims))
            /\ calls'[t].expiry >= now
            /\ calls'[t].expiry = now + Lifetime(calls'[t].claims).v
            /\ Lifetime(calls'[t].claims).v = calls'[t].claims.exp - calls'[t].claims.iat
        /\ (calls[t].state = "verified" /\ calls'[t].state # "verified") =>
            /\ calls'[t].state = "done"
            /\ calls'[t].res = Ok(calls[t].claims)
            /\ calls'[t].token \in DOMAIN token_cache'
            /\ token_cache'[calls'[t].token].expiry = calls[t].expiry
      ]_vars

\* The token whose iat is later than its exp has been refused before its
\* exp, and a call for the token of the skewed issuer has inserted an entry
\* that lasts the one second between its iat and its exp.
C38_Witness ==
    \E t1 \in Tasks, t2 \in Tasks :
        /\ calls[t1].state = "done"
        /\ calls[t1].token = "backdated"
        /\ calls[t1].remote = 1
        /\ calls[t1].res = JwtError("MalformedToken")
        /\ calls[t2].state = "done"
        /\ calls[t2].token = "skewed"
        /\ calls[t2].remote = 1
        /\ calls[t2].res.tag = "Ok"
        /\ token_cache["skewed"].expiry = 2

\* ------------------------------------------------------------------ C39

\* C39: a get_decoding_key call that gets the write guard returns the cached
\* key without a remote fetch exactly when a key is cached whose expiry is
\* later than now, and otherwise sends one fetch; at most one fetch is
\* outstanding at any time and no call gets the guard while one is, whatever
\* the call would find; a fetch that yields a key caches it for KeyTtl from
\* its completion, and a failed fetch leaves the cached key as it was.
C39_OneFetchAtATime ==
    [][/\ Cardinality({t \in Tasks : calls'[t].state = "fetching"}) <= 1
       /\ \A t \in Tasks :
            /\ (calls[t].state = "waiting" /\ calls'[t].state # "waiting") =>
                    /\ \A u \in Tasks : calls[u].state # "fetching"
                    /\ cached_key' = cached_key
                    /\ IF is_some(cached_key) /\ cached_key.v.expiry > now
                       THEN /\ calls'[t].state = "done"
                            /\ calls'[t].res = Ok(cached_key.v.key)
                            /\ calls'[t].remote = 0
                       ELSE /\ calls'[t].state = "fetching"
                            /\ calls'[t].remote = 1
            /\ (calls[t].state = "fetching" /\ calls'[t].state # "fetching") =>
                    /\ calls'[t].state = "done"
                    /\ calls'[t].remote = 1
                    /\ IF calls'[t].res.tag = "Ok"
                       THEN cached_key' = Some([key |-> calls'[t].res.v,
                                                expiry |-> now + KeyTtl])
                       ELSE cached_key' = cached_key]_vars

\* A key fetched earlier has expired and is still cached after a failed
\* fetch; one call is fetching again while another waits for the lock.
C39_Witness ==
    /\ is_some(cached_key)
    /\ cached_key.v.expiry <= now
    /\ \E t \in Tasks : \E u \in Tasks \ {t} : \E w \in Tasks \ {t, u} :
            /\ calls[t].state = "fetching"
            /\ calls[u].state = "waiting"
            /\ calls[w].state = "done"
            /\ calls[w].remote = 1
            /\ calls[w].res.tag = "Err"

\* One second before the cached key expires a call has returned it without
\* a fetch.
C39_WitnessHit ==
    /\ is_some(cached_key)
    /\ cached_key.v.expiry = now + 1
    /\ \E t \in Tasks :
            /\ calls[t].state = "done"
            /\ calls[t].remote = 0
            /\ calls[t].res = Ok(cached_key.v.key)

====
